---------------------------- MODULE Spec2Model ----------------------------
(***************************************************************************)
(* A model of the msmart LAN controller library: the frame codec           *)
(* (base_command.py), the heat-pump (C3) and commercial-AC (CC) commands   *)
(* and devices, the broadcast discovery (discover.py) and the parts of     *)
(* the air-conditioner (AC) device that its tests exercise.                *)
(*                                                                         *)
(* Byte strings are sequences of 0..255.  Python indices are kept through  *)
(* At(s, i) (the i-th byte, from 0) and Slice(s, a, b) (s[a:b]).           *)
(*                                                                         *)
(* The module holds one state machine per component; each has its own      *)
(* specification (SpecFrame, SpecHP, SpecCC, SpecDiscover, SpecSend,       *)
(* SpecAC) that moves the component's variables and leaves the others.     *)
(***************************************************************************)
EXTENDS Integers, Sequences, FiniteSets, TLC

VARIABLES
    \* ---- frame codec
    frame,        \* the last frame built (a byte sequence), <<>> before
    f_in,         \* the inputs it was built from: [cmd, dt, ft, payload]
    f_stage,      \* "none" | "built" | "mutated"
    f_pos,        \* the position changed by the last mutation, -1 if none
    message_id,   \* CC Command._message_id (class attribute)
    cc_built,     \* CC frames built since message_id was last set
    \* ---- heat pump (C3) device
    hp,           \* the HeatPump object's fields
    hp_op,        \* the last call: "none" | "refresh" | "apply"
    hp_responses, \* what _send_command returned to it, None if nothing sent
    hp_exc,       \* the exception the last call raised, or Returned
    \* ---- commercial AC (CC) device
    cc,           \* the CommercialCooler object's fields
    cc_op,        \* the last call: "none" | "refresh" | "apply"
    cc_responses, \* the list _send_command returned to it
    cc_exc,       \* the exception the last call raised, or Returned
    \* ---- discovery
    d_calls,      \* discover() calls started
    d_phase,      \* "idle" | "listening" | "gathering"
    d_ips,        \* _DiscoverProtocol._discovered_ips of the current call
    d_tasks,      \* _DiscoverProtocol.tasks, in the order of creation:
                  \*   [ip, version, data, result], result.kind "pending"
                  \*   until the task has run
    d_result,     \* what the last finished discover() returned or raised
    d_received,   \* datagrams received in the current call
    d_first,      \* per source IP, its first datagram of the current
                  \*   call: "none" | "known" | "unknown" (version)
    d_prev,       \* source IPs that had a task in an earlier call
    d_event,      \* the last step, with _discovered_ips and tasks
                  \*   as they were before a datagram was handled
    \* ---- Device._send_command of one device
    s_pc,         \* per caller: "idle" | "waiting" | "sending"
    s_queue,      \* the callers waiting for the device, oldest first
    s_wire,       \* the callers whose command is sent and not completed
    s_order,      \* the callers in the order they called refresh()/apply()
    s_sent,       \* the callers in the order their commands were sent
    s_outcome,    \* how the last completed command ended
    \* ---- one AirConditioner
    ac,           \* the breeze and swing angle properties, and the
                  \*   _supported_properties and _updated_properties sets
    ac_event,     \* the last operation, with the device as it was before
    \* ---- the value conversions: the last conversion called
    call,         \* [fn, arg, result] of the last call
    \* ---- discovery: the UDP transport of one discover() call
    t_pc,         \* "idle" | "sleeping" | "done"
    t_args,       \* [target, interface, discovery_packets, single]
    t_sent,       \* the (address, port) of every transport.sendto, in order
    t_closed,     \* transport.close() calls
    t_tasks,      \* device tasks started by the datagrams received
    t_result,     \* what the call returned or raised
    \* ---- Discover._get_cloud, called by concurrent device tasks
    c_pc,         \* per caller: "idle" | "waiting" | "create" | "return"
                  \*   | "returned" | "raised"
    c_lock,       \* Discover._lock: the caller holding it, or None
    c_cloud,      \* Discover._cloud: None or the client
    c_created,    \* cloud(...) objects created: the clients 1..c_created
    c_logins,     \* the clients whose login() was called, in order
    c_logged_in,  \* the clients whose login() has completed
    c_got         \* per caller: the client _get_cloud returned, or None

frameVars == <<frame, f_in, f_stage, f_pos, message_id, cc_built>>

hpVars == <<hp, hp_op, hp_responses, hp_exc>>

ccVars == <<cc, cc_op, cc_responses, cc_exc>>

discVars ==
    <<d_calls, d_phase, d_ips, d_tasks, d_result, d_received, d_first,
      d_prev, d_event>>

sendVars == <<s_pc, s_queue, s_wire, s_order, s_sent, s_outcome>>

acVars == <<ac, ac_event>>

codecVars == <<call>>

transportVars == <<t_pc, t_args, t_sent, t_closed, t_tasks, t_result>>

cloudVars == <<c_pc, c_lock, c_cloud, c_created, c_logins, c_logged_in, c_got>>

vars == <<frameVars, hpVars, ccVars, discVars, sendVars, acVars, codecVars, transportVars, cloudVars>>

\* what the actions of one component leave unchanged
notFrame == <<hpVars, ccVars, discVars, sendVars, acVars, codecVars, transportVars, cloudVars>>

notHP == <<frameVars, ccVars, discVars, sendVars, acVars, codecVars, transportVars, cloudVars>>

notCC == <<frameVars, hpVars, discVars, sendVars, acVars, codecVars, transportVars, cloudVars>>

notDiscover == <<frameVars, hpVars, ccVars, sendVars, acVars, codecVars, transportVars, cloudVars>>

notSend == <<frameVars, hpVars, ccVars, discVars, acVars, codecVars, transportVars, cloudVars>>

notAC == <<frameVars, hpVars, ccVars, discVars, sendVars, codecVars, transportVars, cloudVars>>

notCodec == <<frameVars, hpVars, ccVars, discVars, sendVars, acVars, transportVars, cloudVars>>

notTransport == <<frameVars, hpVars, ccVars, discVars, sendVars, acVars, codecVars, cloudVars>>

notCloud == <<frameVars, hpVars, ccVars, discVars, sendVars, acVars, codecVars, transportVars>>

-----------------------------------------------------------------------------
(* Bounds of the model *)

\* longest payload handed to Frame.tobytes directly
MaxPayloadLen == 2

\* most frames _send_command returns for one command
MaxResponses == 2

\* discover() calls made
MaxCalls == 2

\* datagrams received during one discover() call
MaxDatagrams == 3

\* concurrent callers of one device
MaxCallers == 3

\* refresh()/apply() calls made on one device
MaxCommands == 4

\* property entries in one properties response
MaxEntries == 2

\* entries in one control response of the commercial AC
MaxControlEntries == 2

-----------------------------------------------------------------------------
(* Byte-string helpers *)

Byte == 0..255

At(s, i) == s[i + 1]

\* s[a:b] of Python, 0 <= a, b <= len(s)
Slice(s, a, b) == IF b <= a THEN <<>> ELSE SubSeq(s, a + 1, b)

Last(s) == s[Len(s)]

\* s[lo] + ... + s[hi], halving the range to keep the evaluation shallow
RECURSIVE SumRange(_, _, _)
SumRange(s, lo, hi) ==
    IF lo > hi THEN 0
    ELSE IF lo = hi THEN s[lo]
    ELSE LET mid == (lo + hi) \div 2
         IN  SumRange(s, lo, mid) + SumRange(s, mid + 1, hi)

\* sum(s)
Sum(s) == SumRange(s, 1, Len(s))

Zeros(n) == [i \in 1..n |-> 0]

\* bit k of x
Bit(x, k) == (x \div (2 ^ k)) % 2

\* x ^ y on 4-bit values, as a table
XorNibble ==
    [x \in 0..15, y \in 0..15 |->
        LET b(k) == IF Bit(x, k) # Bit(y, k) THEN 2 ^ k ELSE 0
        IN  b(0) + b(1) + b(2) + b(3)]

\* x ^ y on bytes
Xor(x, y) ==
    16 * XorNibble[x \div 16, y \div 16] + XorNibble[x % 16, y % 16]

\* all sequences over S of length at most n
SeqsUpTo(S, n) == UNION {[1..k -> S] : k \in 0..n}

-----------------------------------------------------------------------------
(* msmart.const *)

DeviceType == [AIR_CONDITIONER |-> 172, HEAT_PUMP |-> 195, COMMERCIAL_AC |-> 204]

FrameType == [CONTROL |-> 2, QUERY |-> 3, REPORT |-> 4]

-----------------------------------------------------------------------------
(* base_command.py: Frame *)

HEADER_LENGTH == 10

\* Frame.checksum: (~sum(frame) + 1) & 0xFF, with ~x = -x - 1
checksum_NoIncrement(bytes) == ((0 - Sum(bytes)) - 1) % 256
checksum(bytes) == (((0 - Sum(bytes)) - 1) + 1) % 256

\* the length byte Frame.tobytes writes into header[1]
length_byte(payload) == Len(payload) + HEADER_LENGTH + 1

\* Frame.tobytes(payload) of a Frame(device_type, frame_type); a length
\* that does not fit a byte makes the bytearray assignment raise.
Frame_tobytes(device_type, frame_type, payload) ==
    LET header == <<170, length_byte(payload), device_type,
                    0, 0, 0, 0, 0, 0, frame_type>>
        body == header \o payload
    IN  body \o <<checksum(Slice(body, 1, Len(body)))>>

\* Frame.validate: TRUE when it returns, FALSE when it raises
\* InvalidFrameException
Frame_validate(fr) == checksum(Slice(fr, 1, Len(fr) - 1)) = Last(fr)

-----------------------------------------------------------------------------
(* msmart.crc8 (Midea's CRC-8 table, the reflected polynomial 0x8C) *)

\* one shift of the reflected CRC register
crc8_shift == [c \in Byte |-> IF c % 2 = 1 THEN Xor(c \div 2, 140) ELSE c \div 2]

\* the 256-entry lookup table
crc8_table ==
    [b \in Byte |->
        crc8_shift[crc8_shift[crc8_shift[crc8_shift[
        crc8_shift[crc8_shift[crc8_shift[crc8_shift[b]]]]]]]]]

\* crc8.calculate: crc = table[crc ^ byte] over the bytes, from 0
RECURSIVE crc8_calculate(_)
crc8_calculate(bytes) ==
    IF bytes = <<>> THEN 0
    ELSE crc8_table[Xor(crc8_calculate(SubSeq(bytes, 1, Len(bytes) - 1)),
                        Last(bytes))]

-----------------------------------------------------------------------------
(* device/C3/command.py: heat-pump commands *)

ControlType == [CONTROL_BASIC |-> 1]

QueryType == [QUERY_BASIC |-> 1, QUERY_UNIT_PARAMETERS |-> 16]

ReportType == [REPORT_POWER4 |-> 4]

\* QueryCommand.__init__ / ControlCommand.__init__: the frame type handed
\* to Frame.__init__
HP_QueryCommand_frame_type == FrameType.QUERY
HP_ControlCommand_frame_type == FrameType.QUERY

\* QueryCommand.tobytes: the payload is the query type alone
HP_QueryCommand_payload(type) == <<type>>

b2i(flag) == IF flag THEN 1 ELSE 0

\* ControlBasicCommand.tobytes: the 10-byte payload; c is the command's
\* fields (room_target_temperature an int here, as in the command's test)
HP_ControlBasicCommand_payload(c) ==
    << ControlType.CONTROL_BASIC,
       b2i(c.zone1_power_state) + 2 * b2i(c.zone2_power_state)
           + 4 * b2i(c.dhw_power_state),
       c.run_mode,
       c.zone1_target_temperature,
       c.zone2_target_temperature,
       c.dhw_target_temperature,
       c.room_target_temperature * 2,
       b2i(c.zone1_curve_state) + 2 * b2i(c.zone2_curve_state)
           + 4 * b2i(c.tbh_state) + 8 * b2i(c.fastdhw_state),
       0, 0 >>

\* ControlBasicCommand.__init__: the defaults
HP_ControlBasicCommand_defaults ==
    [zone1_power_state |-> FALSE, zone2_power_state |-> FALSE,
     dhw_power_state |-> FALSE, run_mode |-> 0,
     zone1_target_temperature |-> 0, zone2_target_temperature |-> 0,
     dhw_target_temperature |-> 0, room_target_temperature |-> 0,
     zone1_curve_state |-> FALSE, zone2_curve_state |-> FALSE,
     tbh_state |-> FALSE, fastdhw_state |-> FALSE]

-----------------------------------------------------------------------------
(* device/CC/command.py: commercial-AC commands *)

CommandType == [COMMAND_QUERY |-> 1]

\* class ControlId(IntEnum)
ControlId ==
    [POWER |-> 0, TARGET_TEMPERATURE |-> 3, TEMPERATURE_UNIT |-> 12,
     MODE |-> 18, FAN_SPEED |-> 21, VERT_SWING_ANGLE |-> 28,
     HORZ_SWING_ANGLE |-> 30, WIND_SENSE |-> 32, ECO |-> 40, SILENT |-> 42,
     SLEEP |-> 44, SELF_CLEAN |-> 46, PURIFIER |-> 58, BEEP |-> 63,
     DISPLAY |-> 64, AUX_MODE |-> 67]

\* A temperature is held in half degrees: t stands for the temperature
\* t / 2.
\* ControlId.encode(value): int(T) drops the half degree
ControlId_encode(control, value) ==
    CASE control = "TARGET_TEMPERATURE" -> <<2 * (value \div 2) + 80>>
      [] control = "PURIFIER" -> <<IF value THEN 1 ELSE 2>>
      [] OTHER -> <<value>>

\* ControlId.decode(data): (data[0] / 2.0) - 40 is data[0] - 80 half degrees
ControlId_decode(control, data) ==
    CASE control = "TARGET_TEMPERATURE" -> data[1] - 80
      [] control = "PURIFIER" -> data[1] = 1
      [] OTHER -> data[1]

\* Command._next_message_id: the counter after the increment, and the id
\* returned
next_message_id_counter_Stuck(counter) == counter
next_message_id_counter(counter) == counter + 1
next_message_id(counter) == next_message_id_counter(counter) % 256

\* Command.tobytes(data): the payload handed to Frame.tobytes, built with
\* the class counter as it stands before the call
CC_Command_payload(data, counter) ==
    LET payload == data \o <<next_message_id(counter)>>
    IN  payload \o <<crc8_calculate(payload)>>

\* QueryCommand.tobytes: bytearray(22) with the command type first
CC_QueryCommand_data == <<CommandType.COMMAND_QUERY>> \o Zeros(21)

\* ControlCommand.tobytes: for each control of the mapping, in order, the
\* 16-bit ID (big endian), the length of the encoded value, the value and
\* the terminator 0xFF
RECURSIVE CC_ControlCommand_data(_)
CC_ControlCommand_data(controls) ==
    IF controls = <<>> THEN <<>>
    ELSE LET control == Head(controls).control
             value == ControlId_encode(control, Head(controls).value)
         IN  <<ControlId[control] \div 256, ControlId[control] % 256,
               Len(value)>> \o value \o <<255>>
             \o CC_ControlCommand_data(Tail(controls))

-----------------------------------------------------------------------------
(* Frames received from devices *)

\* the bytes after the start byte followed by their checksum, as a device
\* frames them
WithChecksum(body) == body \o <<checksum(Slice(body, 1, Len(body)))>>

\* test_command.py, the basic query response of a heat pump
HP_TEST_BASIC ==
    <<170, 35, 195, 0, 0, 0, 0, 0, 0, 3, 1, 5, 23, 161, 3, 3, 25, 30, 20, 48,
      55, 25, 25, 5, 55, 25, 25, 5, 60, 34, 60, 20, 34, 0, 0, 44>>

\* the same response with zone 2 enabled (bit 3 of payload[2])
HP_BASIC_ZONE2 ==
    WithChecksum([i \in 1..35 |-> IF i = 13 THEN 31 ELSE HP_TEST_BASIC[i]])

\* the same response with bit 6 of payload[1] set
HP_BASIC_TBH ==
    WithChecksum([i \in 1..35 |-> IF i = 12 THEN 69 ELSE HP_TEST_BASIC[i]])

\* the same response with a wrong checksum
HP_BASIC_BAD_CHECKSUM == [HP_TEST_BASIC EXCEPT ![36] = 45]

\* a basic query response cut short after 2 payload bytes
HP_BASIC_SHORT == WithChecksum(<<170, 12, 195, 0, 0, 0, 0, 0, 0, 3, 1, 5>>)

\* a valid frame of a type the heat pump does not know
HP_UNKNOWN == WithChecksum(<<170, 12, 195, 0, 0, 0, 0, 0, 0, 3, 7, 0>>)

\* test_command.py, the power report of a heat pump
HP_TEST_POWER4 ==
    <<170, 185, 195, 0, 0, 0, 0, 0, 0, 4, 4, 0, 0, 0, 18, 252, 0, 0, 35, 170,
      11, 32, 30, 41, 48, 255, 255, 1>>
    \o Zeros(138) \o <<225>> \o Zeros(17) \o <<20, 11>>

HPFrames ==
    {HP_TEST_BASIC, HP_BASIC_ZONE2, HP_BASIC_TBH, HP_BASIC_BAD_CHECKSUM,
     HP_BASIC_SHORT, HP_UNKNOWN, HP_TEST_POWER4}

\* test_device.py, the query response of a commercial AC
CC_TEST_RESPONSE ==
    <<170, 99, 204, 0, 0, 0, 0, 0, 0, 3, 1, 254, 0, 0, 0, 67, 0, 80, 1,
      114, 140, 121, 1, 1, 0, 114, 140, 114, 140, 121, 121, 0, 1, 1, 65,
      255, 1, 2, 3, 0, 6, 3, 1, 0, 0, 0, 3, 0, 0, 0, 1, 3, 1, 3, 1, 0, 0,
      0, 0, 0, 0, 0, 0, 0, 0, 1, 0, 1, 0, 1, 0, 0, 0, 0, 0, 0, 0, 0, 0, 0,
      0, 0, 0, 1, 0, 2, 0, 0, 1, 0, 0, 1, 1, 0, 1, 2, 255, 2, 255, 106>>

\* the same response with a wrong checksum
CC_BAD_CHECKSUM == [CC_TEST_RESPONSE EXCEPT ![100] = 107]

\* a query response whose payload lacks the 0x01 0xFE header
CC_BAD_HEADER ==
    WithChecksum(<<170, 13, 204, 0, 0, 0, 0, 0, 0, 3, 13, 1, 0>>)

\* a query response with the header and nothing after it
CC_SHORT_QUERY ==
    WithChecksum(<<170, 13, 204, 0, 0, 0, 0, 0, 0, 3, 1, 254, 0>>)

\* a control response with one entry (POWER, 1 byte)
CC_CONTROL_RESPONSE ==
    WithChecksum(<<170, 16, 204, 0, 0, 0, 0, 0, 0, 2, 0, 0, 1, 1, 255, 7>>)

\* a control response that is too short
CC_SHORT_CONTROL ==
    WithChecksum(<<170, 12, 204, 0, 0, 0, 0, 0, 0, 2, 0, 0>>)

\* the query response sent as a report (frame type REPORT)
CC_REPORT ==
    WithChecksum([i \in 1..99 |-> IF i = 10 THEN FrameType.REPORT
                                  ELSE CC_TEST_RESPONSE[i]])

\* a valid frame of a frame type without a response class
CC_OTHER_TYPE ==
    WithChecksum(<<170, 12, 204, 0, 0, 0, 0, 0, 0, 5, 1, 0>>)

CCFrames ==
    {CC_TEST_RESPONSE, CC_BAD_CHECKSUM, CC_BAD_HEADER, CC_SHORT_QUERY,
     CC_CONTROL_RESPONSE, CC_SHORT_CONTROL, CC_REPORT, CC_OTHER_TYPE}

\* every frame a device sends in this model
ReceivedFrames == HPFrames \cup CCFrames

\* Frame.validate of each of them, evaluated once
Frame_validate_received == [fr \in ReceivedFrames |-> Frame_validate(fr)]

-----------------------------------------------------------------------------
(* device/C3/command.py: heat-pump responses *)

\* Optional values: None, or Some(x)
None == <<>>

Some(x) == <<x>>

\* a Python float that is a whole number of halves (payload[9] / 2)
Halves(n) == [type |-> "float", halves |-> n]

IsFloat(v) == v \in [type : {"float"}, halves : Int]

\* QueryBasicResponse._parse; the payload holds at least 25 bytes
QueryBasicResponse_parse(payload) ==
    [zone1_power_state |-> Bit(At(payload, 1), 0) = 1,
     zone2_power_state |-> Bit(At(payload, 1), 1) = 1,
     dhw_power_state |-> Bit(At(payload, 1), 2) = 1,
     zone1_curve_state |-> Bit(At(payload, 1), 3) = 1,
     zone2_curve_state |-> Bit(At(payload, 1), 4) = 1,
     tbh_state |-> Bit(At(payload, 1), 6) = 1,
     fastdhw_state |-> Bit(At(payload, 1), 6) = 1,
     heat_enable |-> Bit(At(payload, 2), 0) = 1,
     cool_enable |-> Bit(At(payload, 2), 1) = 1,
     dhw_enable |-> Bit(At(payload, 2), 2) = 1,
     zone2_enable |-> Bit(At(payload, 2), 3) = 1,
     zone1_temperature_type |-> Bit(At(payload, 2), 4),
     zone2_temperature_type |-> Bit(At(payload, 2), 5),
     room_thermostat_power_state |-> Bit(At(payload, 2), 6) = 1,
     room_thermostat_enable |-> Bit(At(payload, 2), 7) = 1,
     time_set_state |-> Bit(At(payload, 3), 0) = 1,
     silence_on_state |-> Bit(At(payload, 3), 1) = 1,
     holiday_on_state |-> Bit(At(payload, 3), 2) = 1,
     eco_on_state |-> Bit(At(payload, 3), 3) = 1,
     zone1_terminal_type |-> (At(payload, 3) \div 16) % 4,
     zone2_terminal_type |-> ((At(payload, 3) \div 64) % 4) * 4,
     run_mode |-> At(payload, 4),
     run_mode_under_auto |-> At(payload, 5),
     zone1_target_temperature |-> At(payload, 6),
     zone2_target_temperature |-> At(payload, 7),
     dhw_target_temperature |-> At(payload, 8),
     room_target_temperature |-> Halves(At(payload, 9)),
     zone1_heat_max_temperature |-> At(payload, 10),
     zone1_heat_min_temperature |-> At(payload, 11),
     zone1_cool_max_temperature |-> At(payload, 12),
     zone1_cool_min_temperature |-> At(payload, 13),
     zone2_heat_max_temperature |-> At(payload, 14),
     zone2_heat_min_temperature |-> At(payload, 15),
     zone2_cool_max_temperature |-> At(payload, 16),
     zone2_cool_min_temperature |-> At(payload, 17),
     room_max_temperature |-> Halves(At(payload, 18)),
     room_min_temperature |-> Halves(At(payload, 19)),
     dhw_max_temperature |-> At(payload, 20),
     dhw_min_temperature |-> At(payload, 21),
     tank_temperature |->
         IF At(payload, 22) # 255 THEN Some(At(payload, 22)) ELSE None,
     error_code |-> At(payload, 23),
     tbh_enable |-> Bit(At(payload, 24), 7) = 1]

\* struct.unpack("b", ...): a byte as a signed int
signed_int(b) == IF b >= 128 THEN b - 256 ELSE b

\* struct.unpack(">I", ...): four bytes, big-endian
unpack_u32(b) == ((b[1] * 256 + b[2]) * 256 + b[3]) * 256 + b[4]

\* ReportPower4Response._parse; the payload holds at least 157 bytes
ReportPower4Response_parse(payload) ==
    [heat_active |-> Bit(At(payload, 1), 0) = 1,
     cool_active |-> Bit(At(payload, 1), 1) = 1,
     dhw_active |-> Bit(At(payload, 1), 2) = 1,
     tbh_active |-> Bit(At(payload, 1), 3) = 1,
     electric_power |-> unpack_u32(Slice(payload, 2, 6)),
     thermal_power |-> unpack_u32(Slice(payload, 6, 10)),
     outdoor_air_temperature |-> signed_int(At(payload, 10)),
     zone1_target_temperature |-> At(payload, 11),
     zone2_target_temperature |-> At(payload, 12),
     water_tank_temperature |-> At(payload, 13),
     online |-> Bit(At(payload, 17), 0) = 1,
     voltage |-> At(payload, 156)]

\* Response.validate: the frame checksum only
HP_Response_validate(fr) == Frame_validate_received[fr]

\* the result of a call that raised
Raised(exception) == [kind |-> exception]

\* the outcome of a call that raised nothing
Returned == "returned"

\* Response.construct of the heat pump, for a frame of at least 12 bytes:
\* the response built, or the exception raised (an index past the end of
\* the payload raises IndexError in the response's _parse)
HP_Response_construct(fr) ==
    LET payload == Slice(fr, 10, Len(fr) - 1)
        frame_type == At(fr, 9)
        type == At(fr, 10)
    IN  IF ~HP_Response_validate(fr) THEN Raised("InvalidFrameException")
        ELSE IF frame_type = FrameType.QUERY /\ type = QueryType.QUERY_BASIC
        THEN IF Len(payload) < 25 THEN Raised("IndexError")
             ELSE [kind |-> "QueryBasicResponse",
                   res |-> QueryBasicResponse_parse(payload)]
        ELSE IF frame_type = FrameType.QUERY
                /\ type = QueryType.QUERY_UNIT_PARAMETERS
        THEN IF Len(payload) < 40 THEN Raised("IndexError")
             ELSE [kind |-> "QueryUnitParametersResponse"]
        ELSE IF frame_type = FrameType.REPORT
                /\ type = ReportType.REPORT_POWER4
        THEN IF Len(payload) < 157 THEN Raised("IndexError")
             ELSE [kind |-> "ReportPower4Response",
                   res |-> ReportPower4Response_parse(payload)]
        ELSE [kind |-> "Response"]

-----------------------------------------------------------------------------
(* device/C3/device.py: HeatPump *)

\* MideaIntEnum.get_from_value of HeatPump.RunMode: the member, or DEFAULT
RunMode == [AUTO |-> 1, COOL |-> 2, HEAT |-> 3, DHW |-> 5, DEFAULT |-> 1]

RunMode_get_from_value(v) ==
    IF v \in {RunMode.AUTO, RunMode.COOL, RunMode.HEAT, RunMode.DHW}
    THEN v ELSE RunMode.DEFAULT

\* HeatPump.Zone.__init__
HP_Zone ==
    [power_state |-> FALSE, curve_state |-> FALSE,
     temperature_type |-> 0, terminal_type |-> 0,
     target_temperature |-> 25,
     min_heat_temperature |-> 25, max_heat_temperature |-> 55,
     min_cool_temperature |-> 5, max_cool_temperature |-> 25]

\* HeatPump.__init__ (online and supported are the base Device's, False)
HeatPump_init ==
    [online |-> FALSE, supported |-> FALSE,
     run_mode |-> RunMode.DEFAULT,
     heat_enable |-> FALSE, cool_enable |-> FALSE,
     zone_1 |-> HP_Zone, zone_2 |-> None,
     dhw_enable |-> FALSE, dhw_power_state |-> FALSE,
     dhw_target_temperature |-> 25,
     dhw_min_temperature |-> 20, dhw_max_temperature |-> 60,
     room_thermostat_enable |-> FALSE,
     room_thermostat_power_state |-> FALSE,
     room_target_temperature |-> Halves(50),
     room_min_temperature |-> Halves(34),
     room_max_temperature |-> Halves(60),
     tbh_state |-> FALSE, fastdhw_state |-> FALSE,
     tank_temperature |-> None, outdoor_temperature |-> None,
     electric_power |-> None, thermal_power |-> None, voltage |-> None]

\* HeatPump._update_state for a QueryBasicResponse.  The zone loop reads
\* zone{i}_temp_type, which QueryBasicResponse does not define (it defines
\* zone{i}_temperature_type): getattr raises AttributeError in the first
\* zone, after that zone's power and curve state were stored.
HP_update_state_basic(dev, res) ==
    LET d1 == [dev EXCEPT !.run_mode = RunMode_get_from_value(res.run_mode),
                          !.heat_enable = res.heat_enable,
                          !.cool_enable = res.cool_enable]
        d2 == IF res.zone2_enable /\ d1.zone_2 = None
              THEN [d1 EXCEPT !.zone_2 = Some(HP_Zone)] ELSE d1
        d3 == [d2 EXCEPT !.zone_1.power_state = res.zone1_power_state,
                         !.zone_1.curve_state = res.zone1_curve_state]
    IN  [dev |-> d3, exc |-> "AttributeError"]

\* HeatPump._update_state for a ReportPower4Response
HP_update_state_power4(dev, res) ==
    [dev |-> [dev EXCEPT
                !.electric_power = Some(res.electric_power),
                !.thermal_power = Some(res.thermal_power),
                !.outdoor_temperature = Some(res.outdoor_air_temperature),
                !.voltage = Some(res.voltage)],
     exc |-> Returned]

\* one pass of the loop of _send_command_parse_responses over `data`
HP_parse_one(dev, data) ==
    LET response == HP_Response_construct(data)
    IN  IF response.kind = "InvalidFrameException"
        THEN [dev |-> dev, exc |-> Returned]
        ELSE IF response.kind = "IndexError"
        THEN [dev |-> dev, exc |-> "IndexError"]
        ELSE LET d == [dev EXCEPT !.supported = TRUE]
             IN  IF response.kind = "QueryBasicResponse"
                 THEN HP_update_state_basic(d, response.res)
                 ELSE IF response.kind = "ReportPower4Response"
                 THEN HP_update_state_power4(d, response.res)
                 ELSE [dev |-> d, exc |-> Returned]

\* the loop: the responses in order, until one raises
RECURSIVE HP_parse_all(_, _)
HP_parse_all(dev, responses) ==
    IF responses = <<>> THEN [dev |-> dev, exc |-> Returned]
    ELSE LET r == HP_parse_one(dev, Head(responses))
         IN  IF r.exc # Returned THEN r
             ELSE HP_parse_all(r.dev, Tail(responses))

\* HeatPump._send_command_parse_responses, given what _send_command
\* returned: None, or Some list of the frames received
HP_online(responses) == responses # None

HP_send_command_parse_responses(dev, responses) ==
    IF ~HP_online(responses)
    THEN [dev |-> [dev EXCEPT !.online = FALSE], exc |-> Returned]
    ELSE HP_parse_all([dev EXCEPT !.online = TRUE], responses[1])

\* HeatPump.apply up to the send: ControlBasicCommand.tobytes stores
\* room_target_temperature * 2 in a bytearray, which raises TypeError for
\* a float; the device's room target temperature is always a float.
HP_apply_command_raises(dev) == IsFloat(dev.room_target_temperature)

-----------------------------------------------------------------------------
(* device/CC/command.py: commercial-AC responses; device/CC/device.py *)

\* QueryResponse(payload): __init__ reads payload[0], _parse checks the
\* header and reads up to payload[87]
CC_QueryResponse(payload) ==
    IF Len(payload) = 0 THEN Raised("IndexError")
    ELSE IF Slice(payload, 0, 2) # <<1, 254>>
    THEN Raised("InvalidResponseException")
    ELSE IF Len(payload) < 88 THEN Raised("IndexError")
    ELSE [kind |-> "QueryResponse"]

\* the while loop of ControlResponse._parse over what is left of the
\* payload: each entry is a 2-byte ID, a length, the value and the
\* terminator 0xFF.  `states` is the dict built so far and `consumed` the
\* number of bytes each pass advanced by.  With at least 5 bytes left,
\* payload[2] and data[0] = payload[3] exist; a slice past the end is empty.
RECURSIVE CC_ControlResponse_entries(_, _, _)
CC_ControlResponse_entries(payload, states, consumed) ==
    IF Len(payload) < 5
    THEN [kind |-> "ControlResponse", states |-> states,
          consumed |-> consumed]
    ELSE LET size == At(payload, 2)
             raw_id == 256 * At(payload, 0) + At(payload, 1)
             controls == {c \in DOMAIN ControlId : ControlId[c] = raw_id}
             advance == IF size = 0 THEN 5 ELSE 4 + size
             rest == IF advance >= Len(payload) THEN <<>>
                     ELSE Slice(payload, advance, Len(payload))
             updated ==
                 IF size = 0 \/ controls = {} THEN states
                 ELSE LET control == CHOOSE c \in controls : TRUE
                          value == ControlId_decode(
                                       control,
                                       Slice(payload, 3, Len(payload)))
                      IN  [c \in DOMAIN states \cup {control} |->
                              IF c = control THEN value ELSE states[c]]
         IN  CC_ControlResponse_entries(rest, updated,
                                        Append(consumed, advance))

\* ControlResponse._parse: a payload of fewer than 6 bytes is rejected
CC_ControlResponse_parse(payload) ==
    IF Len(payload) < 6 THEN Raised("InvalidResponseException")
    ELSE CC_ControlResponse_entries(payload, <<>>, <<>>)

\* ControlResponse(payload): Response.__init__ reads payload[0] before
\* _parse looks at the length
CC_ControlResponse(payload) ==
    IF Len(payload) = 0 THEN Raised("IndexError")
    ELSE CC_ControlResponse_parse(payload)

\* Response.construct of the commercial AC, for a frame of at least 11
\* bytes: the class of the response built, or the exception raised
CC_Response_construct(fr) ==
    LET payload == Slice(fr, 10, Len(fr) - 1)
        frame_type == At(fr, 9)
    IN  IF ~Frame_validate_received[fr]
        THEN Raised("InvalidFrameException")
        ELSE IF frame_type \in {FrameType.QUERY, FrameType.REPORT}
        THEN CC_QueryResponse(payload)
        ELSE IF frame_type = FrameType.CONTROL
        THEN CC_ControlResponse(payload)
        ELSE IF Len(payload) = 0 THEN Raised("IndexError")
        ELSE [kind |-> "Response"]

\* CommercialCooler.__init__: online and supported are the base Device's
\* CommercialCooler.FanSpeed, OperationalMode, SwingMode, SwingAngle and
\* AuxHeatMode: the members and the member DEFAULT is an alias of
CommercialCooler_enums ==
    [FanSpeed |->
        [members |-> [AUTO |-> 128, POWER |-> 64, SUPER_HIGH |-> 32,
                      HIGH |-> 16, MEDIUM |-> 8, LOW |-> 4, MICRON |-> 2,
                      SLEEP |-> 1],
         DEFAULT |-> "AUTO"],
     OperationalMode |->
        [members |-> [AUTO |-> 16, COOL |-> 8, HEAT |-> 4, DRY |-> 2,
                      FAN |-> 1],
         DEFAULT |-> "FAN"],
     SwingMode |->
        [members |-> [OFF |-> 0, VERTICAL |-> 12, HORIZONTAL |-> 3,
                      BOTH |-> 15],
         DEFAULT |-> "OFF"],
     SwingAngle |->
        [members |-> [OFF |-> 0, POS_1 |-> 1, POS_2 |-> 2, POS_3 |-> 3,
                      POS_4 |-> 4, POS_5 |-> 5, POS_6 |-> 6],
         DEFAULT |-> "OFF"],
     AuxHeatMode |->
        [members |-> [AUTO |-> 0, ON |-> 16, OFF |-> 32],
         DEFAULT |-> "OFF"]]

\* CommercialCooler.__init__: "Support all known modes initially", where
\* enum_cls.list() gives the members of an enum, held by value
CommercialCooler_init ==
    LET list(cls) == {CommercialCooler_enums[cls].members[n] :
                        n \in DOMAIN CommercialCooler_enums[cls].members}
    IN
    [online |-> FALSE, supported |-> FALSE,
     supported_op_modes |-> list("OperationalMode"),
     supported_swing_modes |-> list("SwingMode"),
     supported_fan_speeds |-> list("FanSpeed"),
     supports_custom_fan_speed |-> TRUE,
     supports_eco |-> TRUE,
     supports_turbo |-> TRUE,
     supports_freeze_protection |-> TRUE,
     supports_display_control |-> TRUE,
     supports_filter_reminder |-> TRUE,
     supports_purifier |-> TRUE,
     supports_humidity |-> FALSE,
     supports_target_humidity |-> FALSE,
     supported_aux_modes |-> {CommercialCooler_enums.AuxHeatMode.members.OFF}]

\* the loop of _send_command_get_responses: the responses constructed so
\* far (valid), until a constructor raises something other than
\* InvalidFrameException
RECURSIVE CC_collect(_, _)
CC_collect(responses, valid) ==
    IF responses = <<>> THEN [valid |-> valid, exc |-> Returned]
    ELSE LET response == CC_Response_construct(Head(responses))
         IN  IF response.kind = "InvalidFrameException"
             THEN CC_collect(Tail(responses), valid)
             ELSE IF response.kind \in {"InvalidResponseException",
                                        "IndexError"}
             THEN [valid |-> valid, exc |-> response.kind]
             ELSE CC_collect(Tail(responses), Append(valid, response))

\* CommercialCooler._send_command_get_responses, given the list that
\* _send_command returned
CC_supported(valid_responses) == Len(valid_responses) > 0

CC_send_command_get_responses(dev, responses) ==
    LET r == CC_collect(responses, <<>>)
    IN  IF r.exc # Returned THEN [dev |-> dev, valid |-> <<>>, exc |-> r.exc]
        ELSE [dev |-> [dev EXCEPT !.supported = CC_supported(r.valid)],
              valid |-> r.valid, exc |-> Returned]

\* CommercialCooler.refresh; _update_state touches neither online nor
\* supported
CC_online(responses) == Len(responses) > 0

CC_refresh(dev, responses) ==
    LET r == CC_send_command_get_responses(dev, responses)
    IN  IF r.exc # Returned THEN [dev |-> r.dev, exc |-> r.exc]
        ELSE [dev |-> [r.dev EXCEPT !.online = CC_online(r.valid)],
              exc |-> Returned]

-----------------------------------------------------------------------------
(* discover.py: the discovery responses *)

\* s[::-1]
Reverse(s) == [i \in 1..Len(s) |-> s[Len(s) + 1 - i]]

\* the key byte of the cipher that stands for AES-ECB under the fixed key
ENC_KEY == 165

\* Security.decrypt_aes: the cipher is not modelled as AES but as a
\* byte-wise xor with ENC_KEY; the PKCS7 padding is removed as AES
\* decryption removes it, and raises ValueError for a length that is not a
\* multiple of the 16-byte block or for a wrong padding
Security_decrypt_aes(encrypted) ==
    LET n == Len(encrypted)
        plain == [i \in 1..n |-> Xor(encrypted[i], ENC_KEY)]
    IN  IF n = 0 \/ n % 16 # 0 THEN Raised("ValueError")
        ELSE IF plain[n] \notin 1..16
                \/ \E i \in (n - plain[n] + 1)..n : plain[i] # plain[n]
        THEN Raised("ValueError")
        ELSE [kind |-> "bytes", value |-> SubSeq(plain, 1, n - plain[n])]

\* ET.fromstring(data) parses: the data starts with "<"
ET_fromstring_parses(data) == Len(data) > 0 /\ data[1] = 60

\* Discover._get_device_version: 1, 2 or 3, or UnknownDeviceVersion
Discover_get_device_version_Default3(data) ==
    IF ET_fromstring_parses(data) THEN [kind |-> "int", value |-> 1]
    ELSE IF Slice(data, 0, 2) = <<90, 90>> THEN [kind |-> "int", value |-> 2]
    ELSE [kind |-> "int", value |-> 3]
Discover_get_device_version(data) ==
    IF ET_fromstring_parses(data) THEN [kind |-> "int", value |-> 1]
    ELSE IF Slice(data, 0, 2) = <<90, 90>> THEN [kind |-> "int", value |-> 2]
    ELSE IF Slice(data, 0, 2) = <<131, 112>>
    THEN [kind |-> "int", value |-> 3]
    ELSE Raised("UnknownDeviceVersion")

\* the value of a hexadecimal digit, -1 for another character
HexDigit(c) ==
    IF c \in 48..57 THEN c - 48
    ELSE IF c \in 97..102 THEN c - 87
    ELSE IF c \in 65..70 THEN c - 55
    ELSE -1

\* int(field, 16) of a field of hexadecimal digits
RECURSIVE int_base16(_)
int_base16(field) ==
    IF field = <<>> THEN 0
    ELSE 16 * int_base16(SubSeq(field, 1, Len(field) - 1))
         + HexDigit(Last(field))

\* int(name.split('_')[1], 16): IndexError without a "_", ValueError for
\* a field that is empty or holds another character than a digit
name_type(name) ==
    LET us == {i \in 1..Len(name) : name[i] = 95}
        first == CHOOSE i \in us : \A j \in us : i <= j
        rest == {i \in us : i > first}
        stop == IF rest = {} THEN Len(name) + 1
                ELSE CHOOSE i \in rest : \A j \in rest : i <= j
        field == SubSeq(name, first + 1, stop - 1)
    IN  IF us = {} THEN Raised("IndexError")
        ELSE IF field = <<>>
                \/ \E i \in 1..Len(field) : HexDigit(field[i]) < 0
        THEN Raised("ValueError")
        ELSE [kind |-> "int", value |-> int_base16(field)]

\* the V3 header and hash stripped from the data
Discover_strip_HeaderOnly(version, data) ==
    IF version = 3 THEN Slice(data, 8, Len(data)) ELSE data
Discover_strip(version, data) ==
    IF version = 3 THEN Slice(data, 8, Len(data) - 16) ELSE data

\* the IP address the decrypted body reports: its first 4 bytes reversed
reported_ip(decrypted) == Reverse(Slice(decrypted, 0, 4))

\* the IP address of the dictionary _get_device_info returns, given the
\* source ip of the datagram and the ip_address the body reports
info_ip(ip, ip_address) == ip_address

\* Discover._get_device_info for data of at least 56 bytes after the
\* strip: the dictionary returned, None, or the exception raised.  The
\* id is kept as its 6 bytes, most significant first.
Discover_get_device_info(ip, version, data) ==
    IF version = 1 THEN Raised("NotImplementedError")
    ELSE
    LET data_mv == Discover_strip(version, data)
        encrypted_data == Slice(data_mv, 40, Len(data_mv) - 16)
        id == Reverse(Slice(data_mv, 20, 26))
        dec == Security_decrypt_aes(encrypted_data)
        decrypted == dec.value
        name_length == At(decrypted, 40)
        name == Slice(decrypted, 41,
                      IF 41 + name_length <= Len(decrypted)
                      THEN 41 + name_length ELSE Len(decrypted))
        type == name_type(name)
    IN  IF dec.kind = "ValueError" THEN [kind |-> "None"]
        ELSE IF Len(decrypted) < 4 THEN Raised("AddressValueError")
        ELSE IF Len(decrypted) < 41 THEN Raised("IndexError")
        ELSE IF type.kind # "int" THEN type
        ELSE [kind |-> "dict",
              ip |-> info_ip(ip, reported_ip(decrypted)),
              port |-> At(decrypted, 4) + 256 * At(decrypted, 5),
              id |-> id, name |-> name,
              sn |-> Slice(decrypted, 8, 40),
              type |-> type.value]

\* the test of datagram_received for a responder already handled
already_discovered_Never(ip, discovered_ips) == FALSE
already_discovered(ip, discovered_ips) == ip \in discovered_ips

\* Discover._get_device: the device built, or the exception raised.
\* info["type"] of None raises TypeError.
Discover_get_device(ip, version, data) ==
    LET info == Discover_get_device_info(ip, version, data)
    IN  IF info.kind = "None" THEN Raised("TypeError")
        ELSE IF info.kind # "dict" THEN info
        ELSE [kind |-> "device", info |-> info, version |-> version]

-----------------------------------------------------------------------------
(* The frame codec as a state machine: a caller builds frames from the     *)
(* commands, and a frame on the wire may have one byte changed.            *)

\* payload bytes tried for Frame.tobytes
PayloadBytes == {1, 255}

\* values a changed byte may take
MutationBytes == {0, 255}

\* CC frames built after the counter was last set
MaxCCFrames == 2

\* values a test sets Command._message_id to (test_command.py sets 0)
MessageIdValues == {0, 254}

HPControlFields ==
    {[HP_ControlBasicCommand_defaults EXCEPT
        !.zone1_power_state = p, !.tbh_state = t,
        !.run_mode = m, !.zone1_target_temperature = z] :
     p \in BOOLEAN, t \in BOOLEAN, m \in {0, 3}, z \in {0, 25}}

InitFrame ==
    /\ frame = <<>>
    /\ f_in = [cmd |-> "none", dt |-> 0, ft |-> 0, payload |-> <<>>]
    /\ f_stage = "none"
    /\ f_pos = -1
    /\ message_id = 0
    /\ cc_built = 0

Built(cmd, dt, ft, payload) ==
    /\ f_stage # "mutated"
    /\ Len(payload) + HEADER_LENGTH + 1 <= 255
    /\ frame' = Frame_tobytes(dt, ft, payload)
    /\ f_in' = [cmd |-> cmd, dt |-> dt, ft |-> ft, payload |-> payload]
    /\ f_stage' = "built"
    /\ f_pos' = -1
    /\ UNCHANGED notFrame

\* Frame(device_type, frame_type).tobytes(payload)
FrameToBytes(dt, ft, payload) ==
    /\ Built("Frame", dt, ft, payload)
    /\ UNCHANGED <<message_id, cc_built>>

\* QueryBasicCommand().tobytes()
HPQueryBasicToBytes ==
    /\ Built("QueryBasicCommand", DeviceType.HEAT_PUMP,
             HP_QueryCommand_frame_type,
             HP_QueryCommand_payload(QueryType.QUERY_BASIC))
    /\ UNCHANGED <<message_id, cc_built>>

\* ControlBasicCommand().tobytes() with the fields c
HPControlBasicToBytes(c) ==
    /\ Built("ControlBasicCommand", DeviceType.HEAT_PUMP,
             HP_ControlCommand_frame_type, HP_ControlBasicCommand_payload(c))
    /\ UNCHANGED <<message_id, cc_built>>

\* QueryCommand().tobytes() of the commercial AC
CCQueryToBytes ==
    /\ cc_built < MaxCCFrames
    /\ Built("CC.QueryCommand", DeviceType.COMMERCIAL_AC, FrameType.QUERY,
             CC_Command_payload(CC_QueryCommand_data, message_id))
    /\ message_id' = next_message_id_counter(message_id)
    /\ cc_built' = cc_built + 1

\* ControlCommand(controls).tobytes() of the commercial AC
CCControlToBytes(controls) ==
    /\ cc_built < MaxCCFrames
    /\ Built("CC.ControlCommand", DeviceType.COMMERCIAL_AC, FrameType.CONTROL,
             CC_Command_payload(CC_ControlCommand_data(controls), message_id))
    /\ message_id' = next_message_id_counter(message_id)
    /\ cc_built' = cc_built + 1

\* Command._message_id = v, as the command test does
SetMessageId(v) ==
    /\ f_stage # "mutated"
    /\ message_id' = v
    /\ cc_built' = 0
    /\ UNCHANGED <<frame, f_in, f_stage, f_pos>>
    /\ UNCHANGED notFrame

\* one byte of a built frame takes another value
MutateByte(pos, v) ==
    /\ f_stage = "built"
    /\ pos \in 0..(Len(frame) - 1)
    /\ At(frame, pos) # v
    /\ frame' = [frame EXCEPT ![pos + 1] = v]
    /\ f_stage' = "mutated"
    /\ f_pos' = pos
    /\ UNCHANGED <<f_in, message_id, cc_built>>
    /\ UNCHANGED notFrame

\* the receiver is done with the changed frame
DropFrame ==
    /\ f_stage = "mutated"
    /\ frame' = <<>>
    /\ f_stage' = "none"
    /\ f_pos' = -1
    /\ UNCHANGED <<f_in, message_id, cc_built>>
    /\ UNCHANGED notFrame

NextFrame ==
    \/ \E dt \in {DeviceType.AIR_CONDITIONER, DeviceType.HEAT_PUMP,
                  DeviceType.COMMERCIAL_AC},
          ft \in {FrameType.CONTROL, FrameType.QUERY, FrameType.REPORT},
          payload \in SeqsUpTo(PayloadBytes, MaxPayloadLen) :
            FrameToBytes(dt, ft, payload)
    \/ HPQueryBasicToBytes
    \/ \E c \in HPControlFields : HPControlBasicToBytes(c)
    \/ CCQueryToBytes
    \/ \E controls \in
            {<<>>, <<[control |-> "POWER", value |-> 1]>>,
             <<[control |-> "TARGET_TEMPERATURE", value |-> 45],
               [control |-> "POWER", value |-> 0]>>} :
            CCControlToBytes(controls)
    \/ \E v \in MessageIdValues : SetMessageId(v)
    \/ \E pos \in 0..40, v \in MutationBytes : MutateByte(pos, v)
    \/ DropFrame

-----------------------------------------------------------------------------
(* The heat pump as a state machine: refresh() and apply() are called with *)
(* whatever _send_command returns for the command.                         *)

\* what _send_command returns
HPResponses ==
    {None} \cup {Some(list) : list \in SeqsUpTo(HPFrames, MaxResponses)}

InitHP ==
    /\ hp = HeatPump_init
    /\ hp_op = "none"
    /\ hp_responses = None
    /\ hp_exc = Returned

\* HeatPump.refresh()
HPRefresh(responses) ==
    LET r == HP_send_command_parse_responses(hp, responses)
    IN  /\ hp' = r.dev
        /\ hp_exc' = r.exc
        /\ hp_op' = "refresh"
        /\ hp_responses' = responses
        /\ UNCHANGED notHP

\* HeatPump.apply(): the command is built from the device's fields, and
\* nothing is sent when building it raises
HPApply ==
    /\ hp_op' = "apply"
    /\ IF HP_apply_command_raises(hp)
       THEN /\ hp_exc' = "TypeError"
            /\ hp_responses' = None
            /\ UNCHANGED hp
       ELSE \E responses \in HPResponses :
                LET r == HP_send_command_parse_responses(hp, responses)
                IN  /\ hp' = r.dev
                    /\ hp_exc' = r.exc
                    /\ hp_responses' = responses
    /\ UNCHANGED notHP

NextHP ==
    \/ \E responses \in HPResponses : HPRefresh(responses)
    \/ HPApply

-----------------------------------------------------------------------------
(* The commercial AC as a state machine *)

InitCC ==
    /\ cc = CommercialCooler_init
    /\ cc_op = "none"
    /\ cc_responses = <<>>
    /\ cc_exc = Returned

\* CommercialCooler.refresh()
CCRefresh(responses) ==
    LET r == CC_refresh(cc, responses)
    IN  /\ cc' = r.dev
        /\ cc_exc' = r.exc
        /\ cc_op' = "refresh"
        /\ cc_responses' = responses
        /\ UNCHANGED notCC

\* CommercialCooler.apply(): ControlCommand() is called without its
\* required argument `controls`, which raises TypeError before anything is
\* sent
CCApply ==
    /\ cc_op' = "apply"
    /\ cc_exc' = "TypeError"
    /\ cc_responses' = <<>>
    /\ UNCHANGED cc
    /\ UNCHANGED notCC

NextCC ==
    \/ \E responses \in SeqsUpTo(CCFrames, MaxResponses) :
            CCRefresh(responses)
    \/ CCApply

-----------------------------------------------------------------------------
(* Discovery as a state machine: discover() listens, datagrams arrive, the *)
(* tasks they start run, and discover() gathers the tasks.                 *)

\* the source addresses of the responders
IP_A == <<10, 100, 1, 140>>

IP_B == <<10, 100, 1, 239>>

SourceIPs == {IP_A, IP_B}

\* PKCS7 padding to the 16-byte block, as the device pads the body
PKCS7_pad(plain) ==
    LET p == 16 - (Len(plain) % 16) IN plain \o [i \in 1..p |-> p]

\* the device's encryption, the inverse of Security_decrypt_aes
Device_encrypt(plain) ==
    LET padded == PKCS7_pad(plain)
    IN  [i \in 1..Len(padded) |-> Xor(padded[i], ENC_KEY)]

\* the body of a discovery response: the IP reversed, the port 6444, the
\* serial number, and the name "net_ac_F7B4"
DiscoveryBody(ip) ==
    Reverse(ip) \o <<44, 25, 0, 0>>
    \o <<48, 48, 48, 48, 48, 48, 80, 48, 48, 48, 48, 48, 48, 48, 81, 49,
         70, 48, 67, 57, 68, 49, 53, 51, 70, 55, 66, 52, 48, 48, 48, 48>>
    \o <<11>> \o <<110, 101, 116, 95, 97, 99, 95, 70, 55, 66, 52>>

\* test_discover.py, the 40 header bytes of the V2 response
V2_HEADER ==
    <<90, 90, 1, 17, 120, 0, 122, 128, 0, 0, 0, 0, 0, 0, 0, 0, 0, 0, 0, 0,
      96, 202, 0, 0, 0, 14, 0, 0, 0, 0, 0, 0, 0, 0, 0, 0, 1, 0, 0, 0>>

\* a V2 response: header, encrypted body, 16 trailing bytes
V2Response(encrypted) == V2_HEADER \o encrypted \o Zeros(16)

\* a V3 response: the 8-byte V3 header, a V2 response, a 16-byte hash
V3Response(encrypted) ==
    <<131, 112, 0, 200, 32, 15, 0, 0>> \o V2Response(encrypted) \o Zeros(16)

\* the datagrams a responder may send: V2 and V3 responses reporting IP_A
\* or IP_B, a V2 response that does not decrypt, a V1 (XML) response, and
\* a datagram of no known version
Datagrams ==
    {V2Response(Device_encrypt(DiscoveryBody(IP_A))),
     V2Response(Device_encrypt(DiscoveryBody(IP_B))),
     V3Response(Device_encrypt(DiscoveryBody(IP_A))),
     V2Response(Zeros(64)),
     <<60, 97, 47, 62>>,
     <<0, 0, 1, 2>>}

\* Discover._get_device of every datagram from every source, evaluated once
Discover_get_device_received ==
    [ip \in SourceIPs, data \in Datagrams |->
        LET version == Discover_get_device_version(data)
        IN  IF version.kind # "int" THEN version
            ELSE Discover_get_device(ip, version.value, data)]

Pending == [kind |-> "pending"]

NoEvent == [kind |-> "none"]

InitDiscover ==
    /\ d_calls = 0
    /\ d_phase = "idle"
    /\ d_ips = {}
    /\ d_tasks = <<>>
    /\ d_result = [kind |-> "None"]
    /\ d_received = 0
    /\ d_first = [ip \in SourceIPs |-> "none"]
    /\ d_prev = {}
    /\ d_event = NoEvent

\* Discover.discover up to the sleep: a new _DiscoverProtocol
DiscoverStart ==
    /\ d_phase = "idle"
    /\ d_calls < MaxCalls
    /\ d_calls' = d_calls + 1
    /\ d_phase' = "listening"
    /\ d_ips' = {}
    /\ d_tasks' = <<>>
    /\ d_received' = 0
    /\ d_first' = [ip \in SourceIPs |-> "none"]
    /\ d_prev' = d_prev \cup {d_tasks[i].ip : i \in DOMAIN d_tasks}
    /\ d_event' = [kind |-> "start"]
    /\ UNCHANGED d_result
    /\ UNCHANGED notDiscover

\* _DiscoverProtocol.datagram_received(data, (ip, port))
DatagramReceived(ip, data) ==
    LET version == Discover_get_device_version(data)
    IN  /\ d_phase = "listening"
        /\ d_received < MaxDatagrams
        /\ d_received' = d_received + 1
        /\ d_event' = [kind |-> "datagram", ip |-> ip,
                       seen |-> ip \in d_ips,
                       ips_before |-> d_ips, tasks_before |-> d_tasks]
        /\ d_first' = IF d_first[ip] # "none" THEN d_first
                      ELSE [d_first EXCEPT ![ip] =
                              IF version.kind = "int" THEN "known"
                              ELSE "unknown"]
        /\ IF already_discovered(ip, d_ips)
           THEN UNCHANGED <<d_ips, d_tasks>>
           ELSE /\ d_ips' = d_ips \cup {ip}
                /\ IF version.kind # "int"
                   THEN UNCHANGED d_tasks
                   ELSE d_tasks' = Append(d_tasks,
                            [ip |-> ip, version |-> version.value,
                             data |-> data, result |-> Pending])
        /\ UNCHANGED <<d_calls, d_phase, d_result, d_prev>>
        /\ UNCHANGED notDiscover

\* the event loop runs the task of Discover._get_device to its end
TaskRun(i) ==
    /\ d_phase \in {"listening", "gathering"}
    /\ i \in DOMAIN d_tasks
    /\ d_tasks[i].result = Pending
    /\ d_tasks' = [d_tasks EXCEPT ![i].result =
                     Discover_get_device_received[d_tasks[i].ip,
                                                  d_tasks[i].data]]
    /\ d_event' = [kind |-> "task"]
    /\ UNCHANGED <<d_calls, d_phase, d_ips, d_result, d_received, d_first,
                   d_prev>>
    /\ UNCHANGED notDiscover

\* Discover.discover: the sleep ends and the transport is closed
DiscoverClose ==
    /\ d_phase = "listening"
    /\ d_phase' = "gathering"
    /\ d_event' = [kind |-> "close"]
    /\ UNCHANGED <<d_calls, d_ips, d_tasks, d_result, d_received, d_first,
                   d_prev>>
    /\ UNCHANGED notDiscover

\* Discover.discover: asyncio.gather(*protocol.tasks) once every task is
\* done: the devices, or the exception of a task that raised
DiscoverGather ==
    LET raised == {i \in DOMAIN d_tasks : d_tasks[i].result.kind # "device"}
    IN  /\ d_phase = "gathering"
        /\ \A i \in DOMAIN d_tasks : d_tasks[i].result # Pending
        /\ \/ /\ raised = {}
              /\ d_result' = [kind |-> "devices",
                              devices |-> [i \in DOMAIN d_tasks |->
                                              d_tasks[i].result]]
           \/ \E i \in raised : d_result' = d_tasks[i].result
        /\ d_phase' = "idle"
        /\ d_event' = [kind |-> "gather"]
        /\ UNCHANGED <<d_calls, d_ips, d_tasks, d_received, d_first, d_prev>>
        /\ UNCHANGED notDiscover

NextDiscover ==
    \/ DiscoverStart
    \/ \E ip \in SourceIPs, data \in Datagrams : DatagramReceived(ip, data)
    \/ \E i \in 1..MaxDatagrams : TaskRun(i)
    \/ DiscoverClose
    \/ DiscoverGather

-----------------------------------------------------------------------------
(* Discovery, the transport side: what one discover() or discover_single() *)
(* call sends on its UDP transport, and when it closes it.                 *)

\* _DiscoverProtocol.connection_made: the sendto calls of _send_discovery,
\* discovery_packets to each port; sock is only bound for the broadcast
\* target, so setting the interface of a single host raises before
\* anything is sent
DiscoverProtocol_connection_made(target, interface, discovery_packets) ==
    IF target # "255.255.255.255" /\ interface # None
    THEN <<>>
    ELSE [i \in 1..discovery_packets |-> <<target, 6445>>]
           \o [i \in 1..discovery_packets |-> <<target, 20086>>]

\* Discover.discover: try: await asyncio.sleep(timeout)
\* finally: transport.close()
Discover_discover_close_OnTimeout(closed, outcome) ==
    IF outcome = "timeout" THEN closed + 1 ELSE closed
Discover_discover_close(closed, outcome) == closed + 1

\* what the call returns once the sleep has ended: the gathered devices,
\* the first of them or None for discover_single, or the exception
Discover_discover_result(single, outcome, tasks) ==
    IF outcome # "timeout" THEN Raised(outcome)
    ELSE IF ~single THEN [kind |-> "devices", count |-> tasks]
    ELSE IF tasks > 0 THEN [kind |-> "device"]
    ELSE [kind |-> "None"]

InitTransport ==
    /\ t_pc = "idle"
    /\ t_args = None
    /\ t_sent = <<>>
    /\ t_closed = 0
    /\ t_tasks = 0
    /\ t_result = None

\* Discover.discover / discover_single up to the sleep
TransportStart(target, interface, discovery_packets, single) ==
    /\ t_pc # "sleeping"
    /\ t_pc' = "sleeping"
    /\ t_args' = [target |-> target, interface |-> interface,
                  discovery_packets |-> discovery_packets, single |-> single]
    /\ t_sent' = DiscoverProtocol_connection_made(target, interface,
                                                  discovery_packets)
    /\ t_closed' = 0
    /\ t_tasks' = 0
    /\ t_result' = None
    /\ UNCHANGED notTransport

\* a datagram of a new responder starts a device task
TransportDatagram ==
    /\ t_pc = "sleeping"
    /\ t_tasks < MaxDatagrams
    /\ t_tasks' = t_tasks + 1
    /\ UNCHANGED <<t_pc, t_args, t_sent, t_closed, t_result>>
    /\ UNCHANGED notTransport

\* the sleep ends: the timeout elapses, the call is cancelled or the wait
\* raises; the devices are gathered after a timeout
TransportSleepEnds(outcome) ==
    /\ t_pc = "sleeping"
    /\ t_pc' = "done"
    /\ t_closed' = Discover_discover_close(t_closed, outcome)
    /\ t_result' = Discover_discover_result(t_args.single, outcome, t_tasks)
    /\ UNCHANGED <<t_args, t_sent, t_tasks>>
    /\ UNCHANGED notTransport

NextTransport ==
    \/ \E target \in {"255.255.255.255", "1.1.1.1"},
          interface \in {None, Some("eth0")},
          discovery_packets \in {1, 3}, single \in BOOLEAN :
            TransportStart(target, interface, discovery_packets, single)
    \/ TransportDatagram
    \/ \E outcome \in {"timeout", "CancelledError", "OSError"} :
          TransportSleepEnds(outcome)

-----------------------------------------------------------------------------
(* Device._send_command of one device, called by refresh() and apply() of  *)
(* concurrent callers.  base_device.py is not among the sources: the       *)
(* serialisation is modelled from the specification, as a lock whose       *)
(* waiters are served oldest first.                                        *)

Callers == 1..MaxCallers

\* how a sent command completes: the response window closes, with
\* responses or without (timeout), or the transport fails
Outcomes == {"responses", "timeout", "transport error"}

\* a caller may send at once: nothing is pending and nobody waits
can_send_Always(wire, queue) == TRUE
can_send(wire, queue) == wire = {} /\ queue = <<>>

InitSend ==
    /\ s_pc = [c \in Callers |-> "idle"]
    /\ s_queue = <<>>
    /\ s_wire = {}
    /\ s_order = <<>>
    /\ s_sent = <<>>
    /\ s_outcome = "none"

\* caller c calls refresh() or apply(), which awaits _send_command
SendInvoke(c) ==
    /\ s_pc[c] = "idle"
    /\ Len(s_order) < MaxCommands
    /\ s_order' = Append(s_order, c)
    /\ IF can_send(s_wire, s_queue)
       THEN /\ s_wire' = s_wire \cup {c}
            /\ s_sent' = Append(s_sent, c)
            /\ s_pc' = [s_pc EXCEPT ![c] = "sending"]
            /\ UNCHANGED s_queue
       ELSE /\ s_queue' = Append(s_queue, c)
            /\ s_pc' = [s_pc EXCEPT ![c] = "waiting"]
            /\ UNCHANGED <<s_wire, s_sent>>
    /\ UNCHANGED s_outcome
    /\ UNCHANGED notSend

\* the command of caller c completes and c's call returns
SendComplete(c, outcome) ==
    /\ c \in s_wire
    /\ s_wire' = s_wire \ {c}
    /\ s_pc' = [s_pc EXCEPT ![c] = "idle"]
    /\ s_outcome' = outcome
    /\ UNCHANGED <<s_queue, s_order, s_sent>>
    /\ UNCHANGED notSend

\* the oldest waiter is woken and sends its command
SendNext ==
    /\ s_wire = {}
    /\ s_queue # <<>>
    /\ s_wire' = {Head(s_queue)}
    /\ s_sent' = Append(s_sent, Head(s_queue))
    /\ s_pc' = [s_pc EXCEPT ![Head(s_queue)] = "sending"]
    /\ s_queue' = Tail(s_queue)
    /\ UNCHANGED <<s_order, s_outcome>>
    /\ UNCHANGED notSend

NextSend ==
    \/ \E c \in Callers : SendInvoke(c)
    \/ \E c \in Callers, outcome \in Outcomes : SendComplete(c, outcome)
    \/ SendNext

-----------------------------------------------------------------------------
(* Discover._get_cloud, called by the tasks of the V3 devices that are     *)
(* authenticated during one discovery.                                     *)

\* async with cls._lock: the lock can be taken
cloud_lock_free_Always(lock) == TRUE
cloud_lock_free(lock) == lock = None

InitCloud ==
    /\ c_pc = [c \in Callers |-> "idle"]
    /\ c_lock = None
    /\ c_cloud = None
    /\ c_created = 0
    /\ c_logins = <<>>
    /\ c_logged_in = {}
    /\ c_got = [c \in Callers |-> None]

\* caller c enters _get_cloud, for the first time or again, or is woken:
\* it takes the lock and tests cls._cloud is None, or waits for the lock
CloudEnter(c) ==
    /\ c_pc[c] \in {"idle", "returned", "raised", "waiting"}
    /\ IF cloud_lock_free(c_lock)
       THEN /\ c_lock' = Some(c)
            /\ c_pc' = [c_pc EXCEPT ![c] = IF c_cloud = None THEN "create"
                                           ELSE "return"]
       ELSE /\ c_pc' = [c_pc EXCEPT ![c] = "waiting"]
            /\ UNCHANGED c_lock
    /\ c_got' = [c_got EXCEPT ![c] = None]
    /\ UNCHANGED <<c_cloud, c_created, c_logins, c_logged_in>>
    /\ UNCHANGED notCloud

\* cls._cloud = cloud(account, password); cls._cloud.login(): the login
\* completes, or raises and the exception leaves _get_cloud
CloudCreateLogin(c, login_ok) ==
    /\ c_pc[c] = "create"
    /\ c_created' = c_created + 1
    /\ c_cloud' = Some(c_created + 1)
    /\ c_logins' = Append(c_logins, c_created + 1)
    /\ IF login_ok
       THEN /\ c_logged_in' = c_logged_in \cup {c_created + 1}
            /\ c_pc' = [c_pc EXCEPT ![c] = "return"]
            /\ UNCHANGED c_lock
       ELSE /\ c_pc' = [c_pc EXCEPT ![c] = "raised"]
            /\ c_lock' = None
            /\ UNCHANGED c_logged_in
    /\ UNCHANGED c_got
    /\ UNCHANGED notCloud

\* the lock is released and cls._cloud is returned
CloudReturn(c) ==
    /\ c_pc[c] = "return"
    /\ c_lock' = None
    /\ c_got' = [c_got EXCEPT ![c] = c_cloud]
    /\ c_pc' = [c_pc EXCEPT ![c] = "returned"]
    /\ UNCHANGED <<c_cloud, c_created, c_logins, c_logged_in>>
    /\ UNCHANGED notCloud

NextCloud ==
    \/ \E c \in Callers : CloudEnter(c)
    \/ \E c \in Callers, login_ok \in BOOLEAN : CloudCreateLogin(c, login_ok)
    \/ \E c \in Callers : CloudReturn(c)

-----------------------------------------------------------------------------
(* msmart.device.AC: the breeze properties and the properties responses of *)
(* an AirConditioner.  AC/device.py and AC/command.py are not among the    *)
(* sources: the setters and _update_state are modelled from the            *)
(* specification and from the cases of AC/test_device.py.                  *)

PropertyId == [SWING_UD_ANGLE |-> 9, SWING_LR_ANGLE |-> 10, BREEZE_AWAY |-> 24,
               BREEZELESS |-> 66, BREEZE_CONTROL |-> 67]

SwingAngle == [OFF |-> 0, POS_3 |-> 50, POS_5 |-> 100]

\* AC(0, 0, 0)
AirConditioner_init ==
    [breeze_away |-> FALSE, breeze_mild |-> FALSE, breezeless |-> FALSE,
     horizontal_swing_angle |-> SwingAngle.OFF,
     vertical_swing_angle |-> SwingAngle.OFF,
     supported_properties |-> {}, updated_properties |-> {}]

BreezeNames == {"breeze_away", "breeze_mild", "breezeless"}

\* the property a breeze setter marks as updated: BREEZE_CONTROL when
\* the device supports it, else the property of the one mode
AC_breeze_property_Individual(device, name) ==
    IF name = "breeze_away" THEN PropertyId.BREEZE_AWAY
    ELSE PropertyId.BREEZELESS
AC_breeze_property(device, name) ==
    IF PropertyId.BREEZE_CONTROL \in device.supported_properties
    THEN PropertyId.BREEZE_CONTROL
    ELSE CASE name = "breeze_away" -> PropertyId.BREEZE_AWAY
           [] name = "breezeless" -> PropertyId.BREEZELESS
           [] OTHER -> PropertyId.BREEZE_CONTROL

\* the value the breeze property `other` reads after `name` is assigned
\* `enable`: enabling one mode clears the other two
AC_breeze_after_KeepOthers(device, other, name, enable) ==
    IF other = name THEN enable ELSE device[other]
AC_breeze_after(device, other, name, enable) ==
    IF other = name THEN enable ELSE device[other] /\ ~enable

\* device.<name> = enable, for name one of the three breeze properties
AC_set_breeze(device, name, enable) ==
    [device EXCEPT
        !.breeze_away = AC_breeze_after(device, "breeze_away", name, enable),
        !.breeze_mild = AC_breeze_after(device, "breeze_mild", name, enable),
        !.breezeless = AC_breeze_after(device, "breezeless", name, enable),
        !.updated_properties = @ \cup {AC_breeze_property(device, name)}]

\* a property entry of a response is kept when its status is OK
PropertiesResponse_accepted_Always(entry) == TRUE
PropertiesResponse_accepted(entry) == entry.status = 0

\* PropertiesResponse._parse: the accepted properties and their values, a
\* later entry of one property replacing an earlier one
RECURSIVE PropertiesResponse_parse(_)
PropertiesResponse_parse(entries) ==
    IF entries = <<>> THEN [id \in {} |-> 0]
    ELSE LET rest == PropertiesResponse_parse(SubSeq(entries, 1, Len(entries) - 1))
             entry == Last(entries)
         IN  IF PropertiesResponse_accepted(entry)
             THEN [id \in DOMAIN rest \cup {entry.id} |->
                     IF id = entry.id THEN entry.value ELSE rest[id]]
             ELSE rest

\* AirConditioner._update_state(PropertiesResponse): each property the
\* response holds replaces the local value
AC_update_state_properties(device, properties) ==
    [device EXCEPT
        !.horizontal_swing_angle =
            IF PropertyId.SWING_LR_ANGLE \in DOMAIN properties
            THEN properties[PropertyId.SWING_LR_ANGLE] ELSE @,
        !.vertical_swing_angle =
            IF PropertyId.SWING_UD_ANGLE \in DOMAIN properties
            THEN properties[PropertyId.SWING_UD_ANGLE] ELSE @]

\* the entries a properties response can hold: a swing angle property,
\* its status (0x11 as in the rejected SWING_UD_ANGLE) and its value
PropertyEntries ==
    [id : {PropertyId.SWING_LR_ANGLE, PropertyId.SWING_UD_ANGLE},
     status : {0, 17},
     value : {SwingAngle.POS_3, SwingAngle.POS_5}]

\* 0xB0 set acknowledgements and 0xB1 reports
PropertiesResponses ==
    [type : {176, 177}, entries : SeqsUpTo(PropertyEntries, MaxEntries)]

InitAC ==
    /\ ac = AirConditioner_init
    /\ ac_event = [op |-> "init"]

\* device._supported_properties.add(property)
ACSupportProperty(property) ==
    /\ property \notin ac.supported_properties
    /\ ac' = [ac EXCEPT !.supported_properties = @ \cup {property}]
    /\ ac_event' = [op |-> "support", property |-> property]
    /\ UNCHANGED notAC

\* device.breeze_away = enable, device.breeze_mild = enable or
\* device.breezeless = enable
ACSetBreeze(name, enable) ==
    /\ ac' = AC_set_breeze(ac, name, enable)
    /\ ac_event' = [op |-> "set_breeze", name |-> name, enable |-> enable,
                    before |-> ac]
    /\ UNCHANGED notAC

\* device.horizontal_swing_angle = angle or device.vertical_swing_angle = angle
ACSetSwingAngle(name, angle) ==
    /\ ac' = [ac EXCEPT ![name] = angle]
    /\ ac_event' = [op |-> "set_swing_angle", name |-> name, angle |-> angle]
    /\ UNCHANGED notAC

\* device._update_state(Response.construct(response))
ACUpdateState(response) ==
    /\ ac' = AC_update_state_properties(ac,
                 PropertiesResponse_parse(response.entries))
    /\ ac_event' = [op |-> "update_state", response |-> response,
                    before |-> ac]
    /\ UNCHANGED notAC

NextACBreeze ==
    \/ \E property \in {PropertyId.BREEZE_CONTROL, PropertyId.BREEZE_AWAY,
                        PropertyId.BREEZELESS} : ACSupportProperty(property)
    \/ \E name \in BreezeNames, enable \in BOOLEAN : ACSetBreeze(name, enable)

NextACProperties ==
    \/ \E name \in {"horizontal_swing_angle", "vertical_swing_angle"},
          angle \in {SwingAngle.OFF, SwingAngle.POS_3, SwingAngle.POS_5} :
            ACSetSwingAngle(name, angle)
    \/ \E response \in PropertiesResponses : ACUpdateState(response)

-----------------------------------------------------------------------------
(* Value conversions: ControlId.encode / ControlId.decode of the           *)
(* commercial AC (defined with the commands) and the enum lookups.         *)

\* the member `name` of the enum cls, as an instance of cls
EnumMember(cls, name) ==
    [cls |-> cls, name |-> name,
     value |-> CommercialCooler_enums[cls].members[name]]

\* MideaIntEnum.get_from_value(value): cls(value), or cls.DEFAULT when
\* value is None or no member has it
MideaIntEnum_get_from_value_NoDefault(cls, value) ==
    LET members == CommercialCooler_enums[cls].members
        named == IF value = None THEN {}
                 ELSE {n \in DOMAIN members : members[n] = value[1]}
    IN  EnumMember(cls, CHOOSE n \in DOMAIN members :
                            named = {} \/ n \in named)
MideaIntEnum_get_from_value(cls, value) ==
    LET members == CommercialCooler_enums[cls].members
        named == IF value = None THEN {}
                 ELSE {n \in DOMAIN members : members[n] = value[1]}
    IN  IF named = {}
        THEN EnumMember(cls, CommercialCooler_enums[cls].DEFAULT)
        ELSE EnumMember(cls, CHOOSE n \in named : TRUE)

\* MideaIntEnum.get_from_name(name): cls[name], or cls.DEFAULT when name
\* is None, empty or no member's name
MideaIntEnum_get_from_name(cls, name) ==
    IF name # None
       /\ name[1] \in DOMAIN CommercialCooler_enums[cls].members
    THEN EnumMember(cls, name[1])
    ELSE EnumMember(cls, CommercialCooler_enums[cls].DEFAULT)

InitCodec == call = [fn |-> "none"]

\* control.encode(value)
ControlIdEncode(control, value) ==
    /\ call' = [fn |-> "ControlId.encode", control |-> control,
                arg |-> value, result |-> ControlId_encode(control, value)]
    /\ UNCHANGED notCodec

\* enum_cls.get_from_value(value)
EnumGetFromValue(cls, value) ==
    /\ call' = [fn |-> "get_from_value", cls |-> cls, arg |-> value,
                result |-> MideaIntEnum_get_from_value(cls, value)]
    /\ UNCHANGED notCodec

\* enum_cls.get_from_name(name)
EnumGetFromName(cls, name) ==
    /\ call' = [fn |-> "get_from_name", cls |-> cls, arg |-> name,
                result |-> MideaIntEnum_get_from_name(cls, name)]
    /\ UNCHANGED notCodec

\* the entries of a control response: POWER on and off, a target
\* temperature of 22.5, FAN_SPEED with a 2-byte value, an entry of length
\* zero, an entry with an unknown ID, and a truncated entry
ControlEntries ==
    [complete |-> {<<0, 0, 1, 1, 255>>, <<0, 0, 1, 0, 255>>,
                   <<0, 3, 1, 125, 255>>, <<0, 21, 2, 16, 0, 255>>,
                   <<0, 18, 0, 0, 255>>, <<1, 0, 1, 9, 255>>},
     truncated |-> {<<0, 0, 1>>}]

\* ControlResponse(payload) for a payload made of `entries`, which a
\* message id and a CRC may follow
ControlResponseParse(entries, trailer) ==
    LET payload == LET RECURSIVE concat(_)
                       concat(list) == IF list = <<>> THEN <<>>
                                       ELSE Head(list) \o concat(Tail(list))
                   IN  concat(entries) \o trailer
    IN  /\ call' = [fn |-> "ControlResponse", entries |-> entries,
                    arg |-> payload, result |-> CC_ControlResponse(payload)]
        /\ UNCHANGED notCodec

\* the temperatures 17.0 to 30.0 in steps of 0.5, the members' values and
\* names, and the unknown values and names of the enum tests
NextCodec ==
    \/ \E entries \in SeqsUpTo(ControlEntries.complete
                                  \cup ControlEntries.truncated,
                                MaxControlEntries),
          trailer \in {<<>>, <<7, 201>>} :
            ControlResponseParse(entries, trailer)
    \/ \E value \in 34..60 : ControlIdEncode("TARGET_TEMPERATURE", value)
    \/ \E value \in BOOLEAN : ControlIdEncode("PURIFIER", value)
    \/ \E cls \in DOMAIN CommercialCooler_enums,
          value \in {None} \cup {Some(v) : v \in 0..32 \cup {64, 128, 1234567}} :
            EnumGetFromValue(cls, value)
    \/ \E cls \in DOMAIN CommercialCooler_enums,
          name \in {None} \cup
                   {Some(n) : n \in {"", "INVALID_NAME", "DEFAULT"} \cup
                       UNION {DOMAIN CommercialCooler_enums[c].members :
                                c \in DOMAIN CommercialCooler_enums}} :
            EnumGetFromName(cls, name)

-----------------------------------------------------------------------------
(* Specifications *)

Init == InitFrame /\ InitHP /\ InitCC /\ InitDiscover /\ InitSend
        /\ InitAC /\ InitCodec /\ InitTransport /\ InitCloud

SpecFrame == Init /\ [][NextFrame]_vars

SpecHP == Init /\ [][NextHP]_vars

SpecCC == Init /\ [][NextCC]_vars

SpecDiscover == Init /\ [][NextDiscover]_vars

SpecSend == Init /\ [][NextSend]_vars

SpecACBreeze == Init /\ [][NextACBreeze]_vars

SpecACProperties == Init /\ [][NextACProperties]_vars

SpecCodec == Init /\ [][NextCodec]_vars

SpecTransport == Init /\ [][NextTransport]_vars

SpecCloud == Init /\ [][NextCloud]_vars

-----------------------------------------------------------------------------
(* Properties of the frame codec, checked under SpecFrame *)

C9_SingleByteMutationRejected ==
    f_stage = "mutated" => ~Frame_validate(frame)

\* C10: the length byte of every command frame is the payload length plus
\* the 10-byte header length: 0x0B for QueryBasicCommand, 0x14 for
\* ControlBasicCommand, len(frame[10:-1]) + 10 for the CC QueryCommand.
C10_LengthByte ==
    f_stage = "built" /\ f_in.cmd # "Frame" =>
        /\ At(frame, 1) = Len(Slice(frame, HEADER_LENGTH, Len(frame) - 1))
                            + HEADER_LENGTH
        /\ f_in.cmd = "QueryBasicCommand" => At(frame, 1) = 11
        /\ f_in.cmd = "ControlBasicCommand" => At(frame, 1) = 20

\* C11: every ControlBasicCommand frame carries frame type CONTROL at byte 9
\* and control type CONTROL_BASIC at byte 10; every QueryBasicCommand frame
\* carries frame type QUERY at byte 9 and query type QUERY_BASIC at byte 10.
C11_CommandTypes ==
    f_stage = "built" =>
        /\ f_in.cmd = "ControlBasicCommand" =>
              /\ At(frame, 9) = FrameType.CONTROL
              /\ At(frame, 10) = ControlType.CONTROL_BASIC
        /\ f_in.cmd = "QueryBasicCommand" =>
              /\ At(frame, 9) = FrameType.QUERY
              /\ At(frame, 10) = QueryType.QUERY_BASIC

-----------------------------------------------------------------------------
(* Properties of the heat pump, checked under SpecHP *)

\* a response arrived for the command of the last call
HP_response_arrived == hp_responses # None /\ hp_responses[1] # <<>>

\* a response that passes the frame check arrived
HP_valid_response_arrived ==
    /\ HP_response_arrived
    /\ \E i \in 1..Len(hp_responses[1]) : Frame_validate(hp_responses[1][i])

\* C5: after a heat-pump refresh() or apply(), online is false whenever no
\* response arrived for the command (an empty response list included), and
\* online is true only when at least one valid response arrived.
C5_OnlineIffResponse ==
    hp_op # "none" =>
        /\ ~HP_response_arrived => ~hp.online
        /\ hp.online => HP_valid_response_arrived

-----------------------------------------------------------------------------
(* Properties of the commercial AC, checked under SpecCC *)

\* a frame from which Response.construct builds a response
CC_valid_frame(fr) ==
    CC_Response_construct(fr).kind
        \in {"QueryResponse", "ControlResponse", "Response"}

\* C4: after a commercial-AC refresh(), the device is offline if the
\* transport returned no responses, whatever it was before, and online and
\* supported if it returned at least one valid frame.
C4_RefreshOnline ==
    cc_op = "refresh" =>
        /\ cc_responses = <<>> => ~cc.online
        /\ (\E i \in 1..Len(cc_responses) : CC_valid_frame(cc_responses[i]))
              => cc.online /\ cc.supported

\* C19: a feature the device has not advertised is reported unsupported: a
\* supports_* flag is true, and a supported-modes set has a member, only if
\* a processed capability response advertised it.  The commercial AC
\* processes no capability response, so none is advertised.
C19_UnadvertisedUnsupported ==
    /\ ~cc.supports_custom_fan_speed
    /\ ~cc.supports_eco
    /\ ~cc.supports_turbo
    /\ ~cc.supports_freeze_protection
    /\ ~cc.supports_display_control
    /\ ~cc.supports_filter_reminder
    /\ ~cc.supports_purifier
    /\ ~cc.supports_humidity
    /\ ~cc.supports_target_humidity
    /\ cc.supported_op_modes = {}
    /\ cc.supported_swing_modes = {}
    /\ cc.supported_fan_speeds = {}
    /\ cc.supported_aux_modes = {}

-----------------------------------------------------------------------------
(* Properties of the discovery, checked under SpecDiscover *)

\* the tasks of the current call started for the source IP
TasksOf(ip) == {i \in DOMAIN d_tasks : d_tasks[i].ip = ip}

\* C6: within one discover() call at most one device task is started per
\* source IP, and a datagram from an IP already seen in the call changes
\* neither the set of seen IPs nor the tasks; the set of seen IPs belongs
\* to the call: an IP is in it exactly when it sent a datagram in this
\* call, and it has a task exactly when its first datagram of this call
\* had a known version, whatever earlier calls saw.
C6_OneTaskPerSourceIP ==
    /\ \A ip \in SourceIPs : Cardinality(TasksOf(ip)) <= 1
    /\ d_event.kind = "datagram" /\ d_event.seen =>
            d_ips = d_event.ips_before /\ d_tasks = d_event.tasks_before
    /\ \A ip \in SourceIPs :
            /\ ip \in d_ips <=> d_first[ip] # "none"
            /\ TasksOf(ip) # {} <=> d_first[ip] = "known"

\* in a second call, an IP that had a task in the first call has a task
\* again, and a further datagram from it has just been ignored
C6_Witness ==
    /\ d_calls = 2
    /\ d_event.kind = "datagram" /\ d_event.seen
    /\ d_event.ip \in d_prev
    /\ Cardinality(TasksOf(d_event.ip)) = 1

\* the IP address reported by the body of a task's datagram
TaskReportedIP(t) ==
    reported_ip(Security_decrypt_aes(
        LET data_mv == Discover_strip(t.version, t.data)
        IN  Slice(data_mv, 40, Len(data_mv) - 16)).value)

\* C7: when the IP reported inside the decrypted V2/V3 body differs from
\* the source IP of the datagram, the descriptor that _get_device_info
\* returns carries the source IP.
C7_SourceIPPreferred ==
    \A i \in DOMAIN d_tasks :
        LET t == d_tasks[i]
        IN  t.result.kind = "device" /\ TaskReportedIP(t) # t.ip =>
                t.result.info.ip = t.ip

\* the version the classification rules give a payload, 0 for none
ClassifiedVersion(data) ==
    IF Len(data) > 0 /\ data[1] = 60 THEN 1
    ELSE IF Len(data) >= 2 /\ data[1] = 90 /\ data[2] = 90 THEN 2
    ELSE IF Len(data) >= 2 /\ data[1] = 131 /\ data[2] = 112 THEN 3
    ELSE 0

\* C15: _get_device_version returns 1 for a payload that parses as XML,
\* otherwise 2 when bytes 0-1 are 5A 5A, otherwise 3 when they are 83 70,
\* and raises UnknownDeviceVersion for every other payload; a datagram of
\* unknown version starts no device task.
C15_VersionClassification ==
    /\ \A i \in DOMAIN d_tasks :
          /\ ClassifiedVersion(d_tasks[i].data) # 0
          /\ d_tasks[i].version = ClassifiedVersion(d_tasks[i].data)
    /\ \A ip \in SourceIPs :
          d_first[ip] = "unknown" =>
              \A i \in DOMAIN d_tasks : d_tasks[i].ip # ip

\* a datagram of unknown version arrived from one responder and started
\* no task, and a V3 response of the other responder started one
C15_Witness ==
    /\ d_first[IP_A] = "unknown"
    /\ \A i \in DOMAIN d_tasks : d_tasks[i].ip # IP_A
    /\ \E i \in DOMAIN d_tasks :
          d_tasks[i].ip = IP_B /\ d_tasks[i].version = 3

\* what _get_device_info returns for task t's data taken as a V2 response
\* once its first 8 and its last 16 bytes are removed
InfoOfStripped(t) ==
    Discover_get_device_info(t.ip, 2, Slice(t.data, 8, Len(t.data) - 16))

\* C16: for every V3 discovery response P and source IP,
\* _get_device_info(ip, 3, P) returns the same descriptor (ip, port, id,
\* name, serial, type) as _get_device_info(ip, 2, P') where P' is P
\* without its first 8 and its last 16 bytes.
C16_V3AsStrippedV2 ==
    \A i \in DOMAIN d_tasks :
        (d_tasks[i].version = 3 /\ d_tasks[i].result # Pending) =>
            IF InfoOfStripped(d_tasks[i]).kind = "dict"
            THEN /\ d_tasks[i].result.kind = "device"
                 /\ d_tasks[i].result.info = InfoOfStripped(d_tasks[i])
            ELSE d_tasks[i].result.kind # "device"

\* the task of a V3 response has built its device
C16_Witness ==
    \E i \in DOMAIN d_tasks :
        /\ d_tasks[i].version = 3
        /\ d_tasks[i].result.kind = "device"
        /\ d_tasks[i].result.info.name # <<>>

-----------------------------------------------------------------------------
(* Properties of Device._send_command, checked under SpecSend *)

\* C2: within one device commands are serialized: at most one command is
\* sent and not yet completed, so a second command is not sent until the
\* pending one has completed, and the commands are sent in the order the
\* callers called (waiting callers are served first in, first out).
C2_SerializedFIFO ==
    /\ Cardinality(s_wire) <= 1
    /\ Len(s_sent) <= Len(s_order)
    /\ s_sent = SubSeq(s_order, 1, Len(s_sent))
    /\ s_queue = SubSeq(s_order, Len(s_sent) + 1, Len(s_order))

\* a command is pending while two callers wait, after an earlier command
\* has completed
C2_Witness ==
    /\ s_wire # {}
    /\ Len(s_queue) >= 2
    /\ Len(s_sent) >= 2
    /\ s_outcome # "none"

-----------------------------------------------------------------------------
(* Properties of the AirConditioner breeze setters, checked under          *)
(* SpecACBreeze *)

\* C1: after any sequence of assignments to breeze_away, breeze_mild and
\* breezeless, whether the device supports BREEZE_CONTROL or only an
\* individual breeze property, at most one of the three reads true, and
\* assigning true to one of them makes the other two read false.
C1_BreezeExclusive ==
    /\ Cardinality({name \in BreezeNames : ac[name]}) <= 1
    /\ (ac_event.op = "set_breeze" /\ ac_event.enable) =>
          \A name \in BreezeNames : ac[name] <=> (name = ac_event.name)

\* one breeze mode is enabled while another one was on, on a device
\* without BREEZE_CONTROL that supports an individual breeze property
C1_Witness ==
    /\ ac_event.op = "set_breeze"
    /\ ac_event.enable
    /\ \E name \in BreezeNames \ {ac_event.name} : ac_event.before[name]
    /\ PropertyId.BREEZE_CONTROL \notin ac.supported_properties
    /\ PropertyId.BREEZELESS \in ac.supported_properties

-----------------------------------------------------------------------------
(* Properties of the properties responses, checked under SpecACProperties *)

\* the entries of a response that hold property id with an OK status
AcceptedEntries(response, id) ==
    {i \in DOMAIN response.entries :
        response.entries[i].id = id /\ response.entries[i].status = 0}

\* the local value of property id changed only as the response allows
AppliedOnlyIfAccepted(id, name) ==
    LET accepted == AcceptedEntries(ac_event.response, id)
    IN  IF accepted = {}
        THEN ac[name] = ac_event.before[name]
        ELSE \E i \in accepted :
                /\ \A j \in accepted : j <= i
                /\ ac[name] = ac_event.response.entries[i].value

-----------------------------------------------------------------------------
(* Properties of the value conversions, checked under SpecCodec *)

\* C12: for every commercial-AC target temperature T from 17.0 to 30.0 in
\* steps of 0.5, ControlId.TARGET_TEMPERATURE.encode(T) is the single byte
\* 2 x T + 80, and decoding that byte returns T.
C12_TargetTemperatureRoundTrip ==
    (call.fn = "ControlId.encode" /\ call.control = "TARGET_TEMPERATURE") =>
        /\ call.result = <<call.arg + 80>>
        /\ ControlId_decode("TARGET_TEMPERATURE", call.result) = call.arg

-----------------------------------------------------------------------------
(* Properties of the discovery transport, checked under SpecTransport *)

\* C14: for every target (broadcast or a single host) and interface (set
\* or unset), the protocol, once connected, sends DISCOVERY_MSG to
\* <target>:6445 and to <target>:20086, discovery_packets times each, and
\* to no other address.
C14_DiscoverySent ==
    t_pc # "idle" =>
        /\ \A port \in {6445, 20086} :
              Cardinality({i \in DOMAIN t_sent :
                              t_sent[i] = <<t_args.target, port>>})
                = t_args.discovery_packets
        /\ Len(t_sent) = 2 * t_args.discovery_packets

\* C18: discover() closes its transport exactly once on every path, after
\* the timeout and also when the wait is cancelled or raises, and returns
\* no device when no datagram was received: discover() returns the empty
\* list and discover_single() returns None.
C18_ClosedOnceAndEmpty ==
    /\ t_pc = "sleeping" => t_closed = 0
    /\ t_pc = "done" =>
          /\ t_closed = 1
          /\ (t_result.kind \in {"devices", "device", "None"} /\ t_tasks = 0)
                => t_result = IF t_args.single THEN [kind |-> "None"]
                              ELSE [kind |-> "devices", count |-> 0]

\* a call whose wait was cancelled has closed its transport
C18_Witness ==
    /\ t_pc = "done"
    /\ t_result = Raised("CancelledError")
    /\ t_closed = 1

-----------------------------------------------------------------------------
(* Properties of Discover._get_cloud, checked under SpecCloud *)

\* C17: under any interleaving of concurrent _get_cloud() calls, at most
\* one cloud client is created and login is performed exactly once, and
\* every caller receives that same client.
C17_OneCloudClient ==
    /\ c_created <= 1
    /\ Len(c_logins) = c_created
    /\ \A c \in Callers :
          /\ c_pc[c] \in {"return", "returned"} =>
                (c_cloud = Some(1) /\ c_logins = <<1>>)
          /\ c_pc[c] = "returned" => c_got[c] = Some(1)

\* one caller has received the client, a second one holds the lock and is
\* about to receive it, and a third one waits for the lock
C17_Witness ==
    /\ \E c \in Callers : c_pc[c] = "returned" /\ c_got[c] = Some(1)
    /\ \E c \in Callers : c_pc[c] = "return" /\ c_lock = Some(c)
    /\ \E c \in Callers : c_pc[c] = "waiting"
    /\ c_logins = <<1>>

\* C20: for every device enum (fan speed, operational mode, swing mode,
\* swing angle, aux-heat mode), get_from_value(m.value) and
\* get_from_name(m.name) return m for each member m, and both lookups
\* return the enum's DEFAULT member, as an instance of that enum, for an
\* unknown value or name, for None and for the empty string.
C20_EnumLookups ==
    call.fn \in {"get_from_value", "get_from_name"} =>
        LET enum == CommercialCooler_enums[call.cls]
            hits == IF call.arg = None THEN {}
                    ELSE IF call.fn = "get_from_value"
                    THEN {n \in DOMAIN enum.members :
                            enum.members[n] = call.arg[1]}
                    ELSE {n \in DOMAIN enum.members : n = call.arg[1]}
        IN  /\ call.result.cls = call.cls
            /\ \A n \in hits :
                  /\ call.result.name = n
                  /\ call.result.value = enum.members[n]
            /\ hits = {} =>
                  /\ call.result.name = enum.DEFAULT
                  /\ call.result.value = enum.members[enum.DEFAULT]

\* OperationalMode.get_from_value(None) has returned OperationalMode.FAN
C20_Witness ==
    /\ call.fn = "get_from_value"
    /\ call.cls = "OperationalMode"
    /\ call.arg = None
    /\ call.result = [cls |-> "OperationalMode", name |-> "FAN", value |-> 1]

-----------------------------------------------------------------------------
(* Order of the responses of one command, checked under SpecHP *)

\* the responses of the last heat-pump call that sent its command
HP_last_responses == IF hp_responses = None THEN <<>> ELSE hp_responses[1]

\* response i is the last one of its class among the responses received
HP_last_of_its_class(i) ==
    \A j \in (i + 1)..Len(HP_last_responses) :
        HP_Response_construct(HP_last_responses[j]).kind
            # HP_Response_construct(HP_last_responses[i]).kind

\* C21: the responses of one command reach _update_state in the order
\* received, so a field carried by several responses holds the value of the
\* last response that carries it: after refresh(), the power fields are
\* those of the last power report received, and the run mode, the heat and
\* cool flags, zone 1's power and curve state and the existence of zone 2
\* are those of the last basic response received.
C21_LastValueRetained ==
    hp_op = "refresh" =>
        \A i \in 1..Len(HP_last_responses) :
            LET response == HP_Response_construct(HP_last_responses[i])
            IN  HP_last_of_its_class(i) =>
                  /\ (response.kind = "ReportPower4Response" =>
                        /\ hp.electric_power
                              = Some(response.res.electric_power)
                        /\ hp.thermal_power
                              = Some(response.res.thermal_power)
                        /\ hp.voltage = Some(response.res.voltage))
                  /\ (response.kind = "QueryBasicResponse" =>
                        /\ hp.run_mode
                              = RunMode_get_from_value(response.res.run_mode)
                        /\ hp.heat_enable = response.res.heat_enable
                        /\ hp.cool_enable = response.res.cool_enable
                        /\ hp.zone_1.power_state
                              = response.res.zone1_power_state
                        /\ hp.zone_1.curve_state
                              = response.res.zone1_curve_state
                        /\ (response.res.zone2_enable => hp.zone_2 # None))

-----------------------------------------------------------------------------
(* Undecodable responses, checked under SpecCC *)

\* a response that cannot be decoded for one of the reasons the claim
\* names: a failed checksum, a query payload without the 0x01 0xFE header,
\* a control payload that is too short
CC_undecodable(fr) ==
    CC_Response_construct(fr).kind
        \in {"InvalidFrameException", "InvalidResponseException"}

\* C22: a response that cannot be decoded is logged and dropped: when every
\* response of a refresh() is either decodable or undecodable in one of
\* those ways, refresh() raises nothing, and the decodable responses among
\* them are still processed (the device is online and supported if there
\* is one).
C22_UndecodableDropped ==
    (/\ cc_op = "refresh"
     /\ \A i \in 1..Len(cc_responses) :
            CC_valid_frame(cc_responses[i]) \/ CC_undecodable(cc_responses[i]))
        => /\ cc_exc = Returned
           /\ (\E i \in 1..Len(cc_responses) : CC_valid_frame(cc_responses[i]))
                 => cc.online /\ cc.supported

-----------------------------------------------------------------------------
(* The heat pump's basic response, checked under SpecHP *)

\* C23: for a valid basic-query response, HeatPump._update_state completes
\* without error; afterwards the run mode, the DHW and the room-thermostat
\* fields and, for each existing zone, power, curve, target temperature,
\* temperature type, terminal type and heat/cool bounds equal the decoded
\* values, and zone 2 exists if the response flags double-zone support.
\* Stated for a refresh() whose only response is a basic response.
C23_BasicResponseApplied ==
    (/\ hp_op = "refresh"
     /\ Len(HP_last_responses) = 1
     /\ HP_Response_construct(HP_last_responses[1]).kind
            = "QueryBasicResponse")
        => LET res == HP_Response_construct(HP_last_responses[1]).res
           IN  /\ hp_exc = Returned
               /\ hp.run_mode = RunMode_get_from_value(res.run_mode)
               /\ hp.dhw_enable = res.dhw_enable
               /\ hp.dhw_power_state = res.dhw_power_state
               /\ hp.dhw_target_temperature = res.dhw_target_temperature
               /\ hp.room_thermostat_enable = res.room_thermostat_enable
               /\ hp.room_target_temperature = res.room_target_temperature
               /\ hp.zone_1.power_state = res.zone1_power_state
               /\ hp.zone_1.curve_state = res.zone1_curve_state
               /\ hp.zone_1.target_temperature = res.zone1_target_temperature
               /\ hp.zone_1.temperature_type = res.zone1_temperature_type
               /\ hp.zone_1.terminal_type = res.zone1_terminal_type
               /\ hp.zone_1.min_heat_temperature
                     = res.zone1_heat_min_temperature
               /\ hp.zone_1.max_heat_temperature
                     = res.zone1_heat_max_temperature
               /\ hp.zone_1.min_cool_temperature
                     = res.zone1_cool_min_temperature
               /\ hp.zone_1.max_cool_temperature
                     = res.zone1_cool_max_temperature
               /\ (res.zone2_enable => hp.zone_2 # None)

\* C24: after decoding any heat-pump basic response, the tank-booster (tbh)
\* state and the fast-DHW state are never both true.
C24_TbhFastDhwExclusive ==
    \A i \in 1..Len(HP_last_responses) :
        LET response == HP_Response_construct(HP_last_responses[i])
        IN  response.kind = "QueryBasicResponse" =>
                ~(response.res.tbh_state /\ response.res.fastdhw_state)

-----------------------------------------------------------------------------
(* The supported flag, checked under SpecCC *)

\* C25: once a device's supported flag is true, no later refresh() or
\* apply() sets it back to false, whatever the responses (none, only
\* invalid ones, or valid ones); for the heat pump and the commercial AC.
C25_SupportedMonotone ==
    [][/\ cc.supported => cc'.supported
       /\ hp.supported => hp'.supported]_vars

-----------------------------------------------------------------------------
(* Failing responders, checked under SpecDiscover *)

\* C26: discover() returns one device for every responder whose response
\* could be decoded, even when another responder of the same call fails (a
\* V2/V3 payload that does not decrypt, a V1 responder whose handling
\* raises): once the tasks are gathered, the call has returned a list that
\* holds the device of every task that built one.
C26_FailuresIsolated ==
    d_event.kind = "gather" =>
        /\ d_result.kind = "devices"
        /\ \A i \in DOMAIN d_tasks :
              d_tasks[i].result.kind = "device" =>
                  \E j \in DOMAIN d_result.devices :
                      d_result.devices[j] = d_tasks[i].result

\* C27: a first datagram of unknown version from an IP does not prevent a
\* later valid datagram from the same IP from starting a device task in the
\* same call: when a datagram of a known version arrives from an IP whose
\* first datagram of the call had no known version, the IP has a task
\* afterwards.
C27_UnknownVersionNotRemembered ==
    [][\A ip \in SourceIPs, data \in Datagrams :
          (/\ DatagramReceived(ip, data)
           /\ Discover_get_device_version(data).kind = "int"
           /\ d_first[ip] = "unknown")
              => \E i \in DOMAIN d_tasks' : d_tasks'[i].ip = ip]_vars

-----------------------------------------------------------------------------
(* A failing cloud login, checked under SpecCloud *)

\* C28: a cloud client returned by _get_cloud() has always completed its
\* login: a client whose login failed is not retained, so the next call
\* creates a client and logs in again.
C28_ReturnedClientLoggedIn ==
    /\ \A c \in Callers :
          c_got[c] # None => c_got[c][1] \in c_logged_in
    /\ c_cloud # None /\ c_lock = None => c_cloud[1] \in c_logged_in

-----------------------------------------------------------------------------
(* The message id of the commercial-AC commands, checked under SpecFrame *)

\* the payload byte before the trailing CRC-8 of a commercial-AC frame
CC_frame_message_id(fr) == At(fr, Len(fr) - 3)

\* C29: every commercial-AC command frame carries, in the payload byte
\* before the trailing CRC-8, a message id that is the previous frame's id
\* plus one modulo 256; the counter is shared by all commands, so the id of
\* the previous frame is the counter's low byte whatever command built it
\* (the first frame after the counter was set to 0 carries 1), and two
\* frames built one after the other never carry the same id.
C29_MessageIdIncrements ==
    [][cc_built' = cc_built + 1 =>
          /\ CC_frame_message_id(frame') = ((message_id % 256) + 1) % 256
          /\ message_id' % 256 = CC_frame_message_id(frame')
          /\ (/\ cc_built > 0
              /\ f_stage = "built"
              /\ f_in.cmd \in {"CC.QueryCommand", "CC.ControlCommand"})
                => CC_frame_message_id(frame') # CC_frame_message_id(frame)
      ]_vars

\* the counter has wrapped: after it was set to 254, a query and then a
\* control command were built, and the second frame carries id 0
C29_Witness ==
    /\ f_stage = "built"
    /\ f_in.cmd = "CC.ControlCommand"
    /\ cc_built = 2
    /\ message_id = 256
    /\ CC_frame_message_id(frame) = 0

-----------------------------------------------------------------------------
(* Parsing a control response, checked under SpecCodec *)

\* the value the last complete entry of `control` with a value carries,
\* None when there is no such entry
LastEntryValue(entries, control) ==
    LET hits == {i \in 1..Len(entries) :
                    /\ entries[i][3] # 0
                    /\ 256 * entries[i][1] + entries[i][2]
                          = ControlId[control]}
    IN  IF hits = {} THEN None
        ELSE LET last == CHOOSE i \in hits : \A j \in hits : j <= i
             IN  Some(ControlId_decode(control, <<entries[last][4]>>))

\* C30: parsing a control response ends for every payload without reading
\* past its end: a payload of fewer than 6 bytes raises
\* InvalidResponseException; otherwise every pass of the loop consumes at
\* least 5 bytes and, when the payload is made of complete entries,
\* entries of length zero or with an unknown ID are skipped without
\* stopping the later ones and each control holds the value of its last
\* entry.
C30_ControlResponseParse ==
    call.fn = "ControlResponse" =>
        /\ call.result.kind # "IndexError"
        /\ Len(call.arg) < 6 =>
              call.result.kind = "InvalidResponseException"
        /\ Len(call.arg) >= 6 =>
              /\ call.result.kind = "ControlResponse"
              /\ \A i \in 1..Len(call.result.consumed) :
                    call.result.consumed[i] >= 5
              /\ (\A i \in 1..Len(call.entries) :
                      call.entries[i] \in ControlEntries.complete)
                    => \A control \in DOMAIN ControlId :
                          LET value == LastEntryValue(call.entries, control)
                          IN  IF value = None
                              THEN control \notin DOMAIN call.result.states
                              ELSE /\ control \in DOMAIN call.result.states
                                   /\ call.result.states[control] = value[1]

=============================================================================
